---- MODULE Spec2Model ----
(***************************************************************************)
(* Model of the middle-end core of the NUDT SysY compiler:                 *)
(*   - the def-use graph of ir::Value / ir::Use / ir::User                  *)
(*   - the analysis cache pass::TopAnalysisInfoManager                      *)
(***************************************************************************)
EXTENDS Integers, Sequences, FiniteSets, TLC

(***************************************************************************)
(* Bounds                                                                  *)
(***************************************************************************)
\* most Use objects created in the explored runs
MaxUses == 3

(***************************************************************************)
(* Part I.  Def-use graph (Value, Use, User)                               *)
(***************************************************************************)
\* The IR values of the explored module: a function and two instructions.
Values == {"f", "i1", "i2"}

\* The values that are Users (the instructions).
Users == {"i1", "i2"}

\* Value::mType of each value.
typeOf(v) ==
  CASE v = "f"  -> "function"
    [] v = "i1" -> "i32"
    [] v = "i2" -> "i32"

\* Value::mValueId of each value.
valueId(v) ==
  CASE v = "f"  -> "vFUNCTION"
    [] v = "i1" -> "vINSTRUCTION"
    [] v = "i2" -> "vINSTRUCTION"

VARIABLES
  mUse,          \* the Use objects made so far: id -> [mIndex, mUser, mValue]
  mOperands,     \* User::mOperands: user -> sequence of Use ids
  mUses,         \* Value::mUses: value -> the Use ids in its use-list
  aborted,       \* an assertion of the def-use operations has failed
  dropped,       \* the users unuse_allvalue has been called on
  duLast         \* the def-use operation that ran last, with its arguments

duVars == <<mUse, mOperands, mUses, aborted, dropped, duLast>>

UseIds == DOMAIN mUse

NoOp ==
  [op |-> "none", user |-> "none", index |-> 0, value |-> "none",
   other |-> "none", n |-> 0]

DuInit ==
  /\ mUse = <<>>
  /\ mOperands = [x \in Users |-> <<>>]
  /\ mUses = [v \in Values |-> {}]
  /\ aborted = FALSE
  /\ dropped = {}
  /\ duLast = NoOp

\* Use::Use(index, user, value)
Use(index, user, value) == [mIndex |-> index, mUser |-> user, mValue |-> value]

\* Use::set_value on Use u, as a new Use table
set_value(u, value) == [mUse EXCEPT ![u].mValue = value]

\* User::operand(index): the value of the operand at a 0-based index
operand(x, index) == mUse[mOperands[x][index + 1]].mValue

\* addOperand that forgets to register the new Use with the value.
addOperand_unregistered(x, value) ==
  LET u == Len(mUse) + 1 IN
  /\ ~aborted
  /\ Len(mUse) < MaxUses
  /\ mUse' = Append(mUse, Use(Len(mOperands[x]), x, value))
  /\ mOperands' = [mOperands EXCEPT ![x] = Append(@, u)]
  /\ duLast' = [NoOp EXCEPT !.op = "addOperand", !.user = x,
                            !.index = Len(mOperands[x]), !.value = value]
  /\ UNCHANGED <<mUses, aborted, dropped>>

\* add_operand(user, value): appends a new Use, registers it with the value.
addOperand(x, value) ==
  LET u == Len(mUse) + 1 IN
  /\ ~aborted
  /\ Len(mUse) < MaxUses
  /\ mUse' = Append(mUse, Use(Len(mOperands[x]), x, value))
  /\ mOperands' = [mOperands EXCEPT ![x] = Append(@, u)]
  /\ mUses' = [mUses EXCEPT ![value] = @ \cup {u}]
  /\ duLast' = [NoOp EXCEPT !.op = "addOperand", !.user = x,
                            !.index = Len(mOperands[x]), !.value = value]
  /\ UNCHANGED <<aborted, dropped>>

\* setOperand that attaches to the new value without detaching from the old.
setOperand_noDetach(x, index, value) ==
  LET u   == mOperands[x][index + 1]
      old == mUse[u].mValue
  IN
  /\ ~aborted
  /\ index < Len(mOperands[x])
  /\ mUses' = [mUses EXCEPT ![value] = @ \cup {u}]
  /\ mUse' = set_value(u, value)
  /\ duLast' = [NoOp EXCEPT !.op = "setOperand", !.user = x,
                            !.index = index, !.value = value, !.other = old]
  /\ UNCHANGED <<mOperands, aborted, dropped>>

\* set_operand(user, i, new_value): detaches the old Use from the old value's
\* use-list, re-attaches it to the new one; preserves index.
setOperand(x, index, value) ==
  LET u   == mOperands[x][index + 1]
      old == mUse[u].mValue
  IN
  /\ ~aborted
  /\ index < Len(mOperands[x])
  /\ mUses' = [v \in Values |->
                 IF v = value THEN mUses[v] \cup {u}
                 ELSE IF v = old THEN mUses[v] \ {u}
                 ELSE mUses[v]]
  /\ mUse' = set_value(u, value)
  /\ duLast' = [NoOp EXCEPT !.op = "setOperand", !.user = x,
                            !.index = index, !.value = value, !.other = old]
  /\ UNCHANGED <<mOperands, aborted, dropped>>

\* A type check that lets every replacement of a function or block through.
failsSilently_never(old, new) == FALSE

\* Whether replace_all_uses_with(old, new) fails silently: old is a function
\* or a block and new has an incompatible type.
failsSilently(old, new) ==
  /\ valueId(old) \in {"vFUNCTION", "vBASIC_BLOCK"}
  /\ typeOf(new) # typeOf(old)

\* replaceAllUseWith that rewrites the Uses but leaves them in old's use-list.
replaceAllUseWith_noMove(old, new) ==
  /\ ~aborted
  /\ duLast' = [NoOp EXCEPT !.op = "replaceAllUseWith", !.value = old,
                            !.other = new, !.n = Cardinality(mUses[old])]
  /\ UNCHANGED <<mOperands, dropped>>
  /\ IF failsSilently(old, new)
       THEN UNCHANGED <<mUse, mUses, aborted>>
     ELSE IF typeOf(new) # typeOf(old)
       THEN /\ aborted' = TRUE
            /\ UNCHANGED <<mUse, mUses>>
     ELSE /\ mUse' = [u \in UseIds |->
                        IF u \in mUses[old] THEN [mUse[u] EXCEPT !.mValue = new]
                        ELSE mUse[u]]
          /\ UNCHANGED <<mUses, aborted>>

\* replace_all_uses_with(old, new): for every Use in old.uses, rewrite
\* u.value = new and move the edge to new.uses.  Fails silently if old is a
\* function or block and new has incompatible type; otherwise types must
\* match (a failed assertion aborts the compiler).
replaceAllUseWith(old, new) ==
  /\ ~aborted
  /\ duLast' = [NoOp EXCEPT !.op = "replaceAllUseWith", !.value = old,
                            !.other = new, !.n = Cardinality(mUses[old])]
  /\ UNCHANGED <<mOperands, dropped>>
  /\ IF failsSilently(old, new)
       THEN UNCHANGED <<mUse, mUses, aborted>>
     ELSE IF typeOf(new) # typeOf(old)
       THEN /\ aborted' = TRUE
            /\ UNCHANGED <<mUse, mUses>>
     ELSE /\ mUse' = [u \in UseIds |->
                        IF u \in mUses[old] THEN [mUse[u] EXCEPT !.mValue = new]
                        ELSE mUse[u]]
          /\ mUses' = [v \in Values |->
                         IF v = new THEN mUses[new] \cup mUses[old]
                         ELSE IF v = old THEN {}
                         ELSE mUses[v]]
          /\ UNCHANGED aborted

\* The operand Uses of user x.
operandUses(x) == {mOperands[x][k] : k \in 1..Len(mOperands[x])}

\* unuse_allvalue that unregisters only the first operand.
unuse_allvalue_firstOnly(x) ==
  /\ ~aborted
  /\ mUses' = [v \in Values |->
                 mUses[v] \ {u \in operandUses(x) :
                               mUse[u].mValue = v /\ mUse[u].mIndex = 0}]
  /\ dropped' = dropped \cup {x}
  /\ duLast' = [NoOp EXCEPT !.op = "unuse_allvalue", !.user = x,
                            !.n = Cardinality(UNION {mUses[v] : v \in Values}
                                                \cap operandUses(x))]
  /\ UNCHANGED <<mUse, mOperands, aborted>>

\* drop_all_operands(user): for each operand, unregister from the used
\* value's use-list; leaves the user in a deletable state.
unuse_allvalue(x) ==
  /\ ~aborted
  /\ mUses' = [v \in Values |->
                 mUses[v] \ {u \in operandUses(x) : mUse[u].mValue = v}]
  /\ dropped' = dropped \cup {x}
  /\ duLast' = [NoOp EXCEPT !.op = "unuse_allvalue", !.user = x,
                            !.n = Cardinality(UNION {mUses[v] : v \in Values}
                                                \cap operandUses(x))]
  /\ UNCHANGED <<mUse, mOperands, aborted>>

(***************************************************************************)
(* Part II.  Analysis cache (pass::TopAnalysisInfoManager)                 *)
(***************************************************************************)
\* The functions of the explored module: two definitions and a declaration.
Funcs == {"main", "g", "decl"}

\* Function::mBlocks of each function.
mBlocks(func) ==
  CASE func = "main" -> {"entry", "body"}
    [] func = "g"    -> {"entry"}
    [] func = "decl" -> {}

\* Function::isOnlyDeclare
isOnlyDeclare(func) == mBlocks(func) = {}

VARIABLES
  mDomTree,         \* func -> the map's entry for the dominator tree
  mPDomTree,        \* func -> the map's entry for the post-dominator tree
  mLoopInfo,        \* func -> the map's entry for the loop info
  mIndVarInfo,      \* func -> the map's entry for the induction variables
  mDepInfo,         \* func -> the map's entry for the dependence info
  mParallelInfo,    \* func -> the map's entry for the parallel info
  mCallGraph,       \* the call graph object
  mSideEffectInfo,  \* the side-effect object
  pending,          \* func -> its CFG was changed and CFGChange not yet called
  broken,           \* a getter ran between a CFG change and its CFGChange
  crashed,          \* a null analysis pointer was dereferenced
  aimLast           \* the manager operation that ran last, and what it did

aimVars ==
  <<mDomTree, mPDomTree, mLoopInfo, mIndVarInfo, mDepInfo, mParallelInfo,
    mCallGraph, mSideEffectInfo, pending, broken, crashed, aimLast>>

funcMaps ==
  <<mDomTree, mPDomTree, mLoopInfo, mIndVarInfo, mDepInfo, mParallelInfo>>

\* An analysis object: its validity flag (AnalysisInfo::isValid) and whether
\* its contents date from before the last change of the function's CFG.
Object(valid, old) == [st |-> "obj", isValid |-> valid, stale |-> old]

\* A map without a key for the function, and a key that maps to nullptr.
Absent  == [st |-> "absent", isValid |-> FALSE, stale |-> FALSE]
NullPtr == [st |-> "null", isValid |-> FALSE, stale |-> FALSE]

\* new DomTree(func, this) and the like: a new analysis object is not valid.
NewInfo == Object(FALSE, FALSE)

\* AnalysisInfo::setOff
setOff(info) == [info EXCEPT !.isValid = FALSE]

\* AnalysisInfo::setOn
setOn(info) == [info EXCEPT !.isValid = TRUE]

\* AnalysisInfo::refresh: if stale, recompute and mark valid.
refresh(info) ==
  IF info.isValid THEN info ELSE [setOn(info) EXCEPT !.stale = FALSE]

NoCall ==
  [op |-> "none", func |-> "none", wasValid |-> FALSE, recomputed |-> FALSE,
   handed |-> "none", handedStale |-> FALSE, hadCache |-> FALSE]

\* The manager after TopAnalysisInfoManager(&module) and initialize().
AimInit ==
  /\ mDomTree = [f \in Funcs |-> Absent]
  /\ mPDomTree = [f \in Funcs |-> Absent]
  /\ mLoopInfo = [f \in Funcs |-> Absent]
  /\ mIndVarInfo = [f \in Funcs |-> Absent]
  /\ mDepInfo = [f \in Funcs |-> Absent]
  /\ mParallelInfo = [f \in Funcs |-> Absent]
  /\ mCallGraph = NewInfo
  /\ mSideEffectInfo = NewInfo
  /\ pending = [f \in Funcs |-> FALSE]
  /\ broken = FALSE
  /\ crashed = FALSE
  /\ aimLast = NoCall

\* addNewFunc(func) applied to one of the six maps, when the entry `own`
\* the getter looked up is nullptr (operator[] makes a missing key nullptr).
addNewFunc(map, own, func) ==
  IF own.st # "obj" THEN [map EXCEPT ![func] = NewInfo] ELSE map

\* Whether refresh() on the object recomputes the analysis.
recomputes(info) == ~info.isValid

\* The record of a per-function getter: the object it looked at (after
\* addNewFunc), whether it recomputed, and the object it handed out; and
\* whether it ran while a CFG change was not yet reported.
Handed(op, func, hadCache, before, recomputed, after) ==
  /\ aimLast' = [NoCall EXCEPT !.op = op, !.func = func,
                              !.wasValid = before.isValid,
                              !.recomputed = recomputed,
                              !.handed = "obj",
                              !.handedStale = after.stale,
                              !.hadCache = hadCache]
  /\ broken' = (broken \/ pending[func])
  /\ UNCHANGED <<mCallGraph, mSideEffectInfo, pending, crashed>>

\* operator[] of a map: a missing key is inserted with nullptr.
index(map, func) ==
  IF map[func].st = "absent" THEN [map EXCEPT ![func] = NullPtr] ELSE map

\* A getter that indexes its map before it looks at isOnlyDeclare().
HandedNull_createsEntry(op, func) ==
  /\ aimLast' = [NoCall EXCEPT !.op = op, !.func = func, !.handed = "null"]
  /\ mDomTree' = index(mDomTree, func)
  /\ UNCHANGED <<mPDomTree, mLoopInfo, mIndVarInfo, mDepInfo, mParallelInfo,
                 mCallGraph, mSideEffectInfo, pending, broken, crashed>>

\* A per-function getter on a declaration: returns nullptr.
HandedNull(op, func) ==
  /\ aimLast' = [NoCall EXCEPT !.op = op, !.func = func, !.handed = "null"]
  /\ UNCHANGED <<funcMaps, mCallGraph, mSideEffectInfo, pending, broken, crashed>>

\* getDomTree(func)
getDomTree(func) ==
  /\ ~crashed
  /\ IF isOnlyDeclare(func) THEN HandedNull("getDomTree", func)
     ELSE LET own    == mDomTree[func]
              domctx == addNewFunc(mDomTree, own, func)[func]
          IN /\ mDomTree' = [addNewFunc(mDomTree, own, func) EXCEPT ![func] = refresh(domctx)]
             /\ mPDomTree' = addNewFunc(mPDomTree, own, func)
             /\ mLoopInfo' = addNewFunc(mLoopInfo, own, func)
             /\ mIndVarInfo' = addNewFunc(mIndVarInfo, own, func)
             /\ mDepInfo' = addNewFunc(mDepInfo, own, func)
             /\ mParallelInfo' = addNewFunc(mParallelInfo, own, func)
             /\ Handed("getDomTree", func, own.st = "obj", domctx,
                       recomputes(domctx), refresh(domctx))

\* getPDomTree(func)
getPDomTree(func) ==
  /\ ~crashed
  /\ IF isOnlyDeclare(func) THEN HandedNull("getPDomTree", func)
     ELSE LET own    == mPDomTree[func]
              domctx == addNewFunc(mPDomTree, own, func)[func]
          IN /\ mDomTree' = addNewFunc(mDomTree, own, func)
             /\ mPDomTree' = [addNewFunc(mPDomTree, own, func) EXCEPT ![func] = refresh(domctx)]
             /\ mLoopInfo' = addNewFunc(mLoopInfo, own, func)
             /\ mIndVarInfo' = addNewFunc(mIndVarInfo, own, func)
             /\ mDepInfo' = addNewFunc(mDepInfo, own, func)
             /\ mParallelInfo' = addNewFunc(mParallelInfo, own, func)
             /\ Handed("getPDomTree", func, own.st = "obj", domctx,
                       recomputes(domctx), refresh(domctx))

\* getLoopInfo(func)
getLoopInfo(func) ==
  /\ ~crashed
  /\ IF isOnlyDeclare(func) THEN HandedNull("getLoopInfo", func)
     ELSE LET own   == mLoopInfo[func]
              lpctx == addNewFunc(mLoopInfo, own, func)[func]
          IN /\ mDomTree' = addNewFunc(mDomTree, own, func)
             /\ mPDomTree' = addNewFunc(mPDomTree, own, func)
             /\ mLoopInfo' = [addNewFunc(mLoopInfo, own, func) EXCEPT ![func] = refresh(lpctx)]
             /\ mIndVarInfo' = addNewFunc(mIndVarInfo, own, func)
             /\ mDepInfo' = addNewFunc(mDepInfo, own, func)
             /\ mParallelInfo' = addNewFunc(mParallelInfo, own, func)
             /\ Handed("getLoopInfo", func, own.st = "obj", lpctx,
                       recomputes(lpctx), refresh(lpctx))

\* getIndVarInfo(func): setOff() before refresh()
getIndVarInfo(func) ==
  /\ ~crashed
  /\ IF isOnlyDeclare(func) THEN HandedNull("getIndVarInfo", func)
     ELSE LET own    == mIndVarInfo[func]
              idvctx == addNewFunc(mIndVarInfo, own, func)[func]
          IN /\ mDomTree' = addNewFunc(mDomTree, own, func)
             /\ mPDomTree' = addNewFunc(mPDomTree, own, func)
             /\ mLoopInfo' = addNewFunc(mLoopInfo, own, func)
             /\ mIndVarInfo' = [addNewFunc(mIndVarInfo, own, func)
                                  EXCEPT ![func] = refresh(setOff(idvctx))]
             /\ mDepInfo' = addNewFunc(mDepInfo, own, func)
             /\ mParallelInfo' = addNewFunc(mParallelInfo, own, func)
             /\ Handed("getIndVarInfo", func, own.st = "obj", idvctx,
                       recomputes(setOff(idvctx)), refresh(setOff(idvctx)))

\* getDepInfo(func): setOff() before refresh()
getDepInfo(func) ==
  /\ ~crashed
  /\ IF isOnlyDeclare(func) THEN HandedNull("getDepInfo", func)
     ELSE LET own   == mDepInfo[func]
              dpctx == addNewFunc(mDepInfo, own, func)[func]
          IN /\ mDomTree' = addNewFunc(mDomTree, own, func)
             /\ mPDomTree' = addNewFunc(mPDomTree, own, func)
             /\ mLoopInfo' = addNewFunc(mLoopInfo, own, func)
             /\ mIndVarInfo' = addNewFunc(mIndVarInfo, own, func)
             /\ mDepInfo' = [addNewFunc(mDepInfo, own, func)
                               EXCEPT ![func] = refresh(setOff(dpctx))]
             /\ mParallelInfo' = addNewFunc(mParallelInfo, own, func)
             /\ Handed("getDepInfo", func, own.st = "obj", dpctx,
                       recomputes(setOff(dpctx)), refresh(setOff(dpctx)))

\* getParallelInfo(func): no refresh()
getParallelInfo(func) ==
  /\ ~crashed
  /\ IF isOnlyDeclare(func) THEN HandedNull("getParallelInfo", func)
     ELSE LET own   == mParallelInfo[func]
              dpctx == addNewFunc(mParallelInfo, own, func)[func]
          IN /\ mDomTree' = addNewFunc(mDomTree, own, func)
             /\ mPDomTree' = addNewFunc(mPDomTree, own, func)
             /\ mLoopInfo' = addNewFunc(mLoopInfo, own, func)
             /\ mIndVarInfo' = addNewFunc(mIndVarInfo, own, func)
             /\ mDepInfo' = addNewFunc(mDepInfo, own, func)
             /\ mParallelInfo' = addNewFunc(mParallelInfo, own, func)
             /\ Handed("getParallelInfo", func, own.st = "obj", dpctx, FALSE, dpctx)

\* A getXWithoutRefresh(func) getter, `own` being the entry it looked up.
\* With a nullptr entry it calls addNewFunc and then refresh() through the
\* local pointer read before, which is still nullptr: the program stops
\* there, or goes on and returns that nullptr.
WithoutRefresh(op, own, func) ==
  /\ ~crashed
  /\ IF isOnlyDeclare(func) THEN HandedNull(op, func)
     ELSE IF own.st = "obj"
       THEN /\ Handed(op, func, TRUE, own, FALSE, own)
            /\ UNCHANGED funcMaps
     ELSE /\ mDomTree' = addNewFunc(mDomTree, own, func)
          /\ mPDomTree' = addNewFunc(mPDomTree, own, func)
          /\ mLoopInfo' = addNewFunc(mLoopInfo, own, func)
          /\ mIndVarInfo' = addNewFunc(mIndVarInfo, own, func)
          /\ mDepInfo' = addNewFunc(mDepInfo, own, func)
          /\ mParallelInfo' = addNewFunc(mParallelInfo, own, func)
          /\ crashed' \in BOOLEAN
          /\ aimLast' = [NoCall EXCEPT !.op = op, !.func = func,
                                      !.handed = IF crashed' THEN "none"
                                                 ELSE "null"]
          /\ broken' = (broken \/ pending[func])
          /\ UNCHANGED <<mCallGraph, mSideEffectInfo, pending>>

\* getDomTreeWithoutRefresh(func)
getDomTreeWithoutRefresh(func) ==
  WithoutRefresh("getDomTreeWithoutRefresh", mDomTree[func], func)

\* getPDomTreeWithoutRefresh(func)
getPDomTreeWithoutRefresh(func) ==
  WithoutRefresh("getPDomTreeWithoutRefresh", mPDomTree[func], func)

\* getLoopInfoWithoutRefresh(func)
getLoopInfoWithoutRefresh(func) ==
  WithoutRefresh("getLoopInfoWithoutRefresh", mLoopInfo[func], func)

\* getIndVarInfoWithoutRefresh(func)
getIndVarInfoWithoutRefresh(func) ==
  WithoutRefresh("getIndVarInfoWithoutRefresh", mIndVarInfo[func], func)

\* getDepInfoWithoutRefresh(func)
getDepInfoWithoutRefresh(func) ==
  WithoutRefresh("getDepInfoWithoutRefresh", mDepInfo[func], func)

\* getCallGraph()
getCallGraph ==
  /\ ~crashed
  /\ mCallGraph' = refresh(mCallGraph)
  /\ aimLast' = [NoCall EXCEPT !.op = "getCallGraph",
                              !.wasValid = mCallGraph.isValid,
                              !.recomputed = recomputes(mCallGraph),
                              !.handed = "obj", !.hadCache = TRUE]
  /\ UNCHANGED <<funcMaps, mSideEffectInfo, pending, broken, crashed>>

\* getSideEffectInfo(): setOff() before refresh()
getSideEffectInfo ==
  /\ ~crashed
  /\ mSideEffectInfo' = refresh(setOff(mSideEffectInfo))
  /\ aimLast' = [NoCall EXCEPT !.op = "getSideEffectInfo",
                              !.wasValid = mSideEffectInfo.isValid,
                              !.recomputed = recomputes(setOff(mSideEffectInfo)),
                              !.handed = "obj", !.hadCache = TRUE]
  /\ UNCHANGED <<funcMaps, mCallGraph, pending, broken, crashed>>

\* map[func]->setOff() on one map, given that the statements before it ran
\* (`reached`): a nullptr entry stops the program instead.
derefSetOff(map, func, reached) ==
  IF ~reached THEN map
  ELSE IF map[func].st = "obj" THEN [map EXCEPT ![func] = setOff(@)]
  ELSE index(map, func)

\* CFGChange(func)
CFGChange(func) ==
  LET found == mDomTree[func].st # "absent"
      d == mDomTree[func].st = "obj"
      p == d /\ mPDomTree[func].st = "obj"
      l == p /\ mLoopInfo[func].st = "obj"
      i == l /\ mIndVarInfo[func].st = "obj"
  IN
  /\ ~crashed
  /\ pending' = [pending EXCEPT ![func] = FALSE]
  /\ aimLast' = [NoCall EXCEPT !.op = "CFGChange", !.func = func,
                              !.hadCache = (~isOnlyDeclare(func) /\ found)]
  /\ UNCHANGED <<mDepInfo, mParallelInfo, mCallGraph, mSideEffectInfo, broken>>
  /\ IF isOnlyDeclare(func) \/ ~found
       THEN UNCHANGED <<mDomTree, mPDomTree, mLoopInfo, mIndVarInfo, crashed>>
     ELSE /\ mDomTree' = derefSetOff(mDomTree, func, TRUE)
          /\ mPDomTree' = derefSetOff(mPDomTree, func, d)
          /\ mLoopInfo' = derefSetOff(mLoopInfo, func, p)
          /\ mIndVarInfo' = derefSetOff(mIndVarInfo, func, l)
          /\ crashed' = ~i

\* CallChange()
CallChange ==
  /\ ~crashed
  /\ mCallGraph' = setOff(mCallGraph)
  /\ aimLast' = [NoCall EXCEPT !.op = "CallChange"]
  /\ UNCHANGED <<funcMaps, mSideEffectInfo, pending, broken, crashed>>

\* IndVarChange that turns off the induction variables of every function.
IndVarChange_everyFunc(func) ==
  /\ ~crashed
  /\ aimLast' = [NoCall EXCEPT !.op = "IndVarChange", !.func = func,
                              !.wasValid = mIndVarInfo[func].isValid,
                              !.hadCache = (mIndVarInfo[func].st = "obj")]
  /\ UNCHANGED <<mDomTree, mPDomTree, mLoopInfo, mDepInfo, mParallelInfo,
                 mCallGraph, mSideEffectInfo, pending, broken>>
  /\ IF isOnlyDeclare(func)
       THEN UNCHANGED <<mIndVarInfo, crashed>>
     ELSE /\ mIndVarInfo' = [f \in Funcs |->
                               IF f = func
                                 THEN derefSetOff(mIndVarInfo, func, TRUE)[func]
                                 ELSE setOff(mIndVarInfo[f])]
          /\ crashed' = (mIndVarInfo[func].st # "obj")

\* IndVarChange(func)
IndVarChange(func) ==
  /\ ~crashed
  /\ aimLast' = [NoCall EXCEPT !.op = "IndVarChange", !.func = func,
                              !.wasValid = mIndVarInfo[func].isValid,
                              !.hadCache = (mIndVarInfo[func].st = "obj")]
  /\ UNCHANGED <<mDomTree, mPDomTree, mLoopInfo, mDepInfo, mParallelInfo,
                 mCallGraph, mSideEffectInfo, pending, broken>>
  /\ IF isOnlyDeclare(func)
       THEN UNCHANGED <<mIndVarInfo, crashed>>
     ELSE /\ mIndVarInfo' = derefSetOff(mIndVarInfo, func, TRUE)
          /\ crashed' = (mIndVarInfo[func].st # "obj")

\* The contents of an analysis object after the function's CFG was changed.
outdated(map, func) ==
  [map EXCEPT ![func] = IF @.st = "obj" THEN [@ EXCEPT !.stale = TRUE] ELSE @]

\* A pass changes the CFG of a function that has a body.
MutateCFG(func) ==
  /\ ~crashed
  /\ ~isOnlyDeclare(func)
  /\ mDomTree' = outdated(mDomTree, func)
  /\ mPDomTree' = outdated(mPDomTree, func)
  /\ mLoopInfo' = outdated(mLoopInfo, func)
  /\ mIndVarInfo' = outdated(mIndVarInfo, func)
  /\ mDepInfo' = outdated(mDepInfo, func)
  /\ mParallelInfo' = outdated(mParallelInfo, func)
  /\ pending' = [pending EXCEPT ![func] = TRUE]
  /\ aimLast' = [NoCall EXCEPT !.op = "MutateCFG", !.func = func]
  /\ UNCHANGED <<mCallGraph, mSideEffectInfo, broken, crashed>>

\* The parallel analysis pass fills the parallel info of a function and
\* marks it valid.
ParallelAnalysis(func) ==
  /\ ~crashed
  /\ mParallelInfo[func].st = "obj"
  /\ mParallelInfo' = [mParallelInfo EXCEPT ![func] = Object(TRUE, FALSE)]
  /\ aimLast' = [NoCall EXCEPT !.op = "ParallelAnalysis", !.func = func]
  /\ broken' = (broken \/ pending[func])
  /\ UNCHANGED <<mDomTree, mPDomTree, mLoopInfo, mIndVarInfo, mDepInfo,
                 mCallGraph, mSideEffectInfo, pending, crashed>>

(***************************************************************************)
(* Part III.  Driver (main, compilerPipeline) and PassManager::runPasses   *)
(***************************************************************************)
\* The longest pass list explored.
MaxPasses == 2

\* The pass names a list is made of; loopunroll runs loopsimplify as a
\* sub-pass before its own work.
PassNames == {"mem2reg", "dce", "loopunroll"}

\* The functions of the module in the order the manager visits them.
ModuleFuncs == <<"main", "g", "decl">>

\* Every pass list of at most MaxPasses names.
PassLists == UNION {[1..n -> PassNames] : n \in 0..MaxPasses}

\* The input files of the command line: none, or one.
Infiles == {"", "test.sy"}

VARIABLES
  config,     \* sysy::Config: infile, genIR, genASM, passes
  pc,         \* the statement of main / compilerPipeline that runs next
  events,     \* what ran so far, in order
  passPos,    \* runPasses: position in the list of the pass that runs
  visited,    \* run(pass): number of functions the pass has been run on
  verified,   \* result of module.verify in frontendPipeline
  emitted,    \* the outputs written: "ir", "asm"
  exitCode    \* what main returned

drvVars ==
  <<config, pc, events, passPos, visited, verified, emitted, exitCode>>

\* One entry of events.
Ev(e, i, n) == [ev |-> e, i |-> i, name |-> n]

\* The program at the start of main.
DrvInit ==
  /\ config = [infile |-> "", genIR |-> FALSE, genASM |-> FALSE, passes |-> <<>>]
  /\ pc = "main"
  /\ events = <<>>
  /\ passPos = 0
  /\ visited = 0
  /\ verified = "none"
  /\ emitted = {}
  /\ exitCode = "none"

\* main: config.parseCmdArgs(argc, argv)
parseCmdArgs ==
  /\ pc = "main"
  /\ \E infile \in Infiles, genIR \in BOOLEAN, genASM \in BOOLEAN,
        passes \in PassLists :
       config' = [infile |-> infile, genIR |-> genIR, genASM |-> genASM,
                  passes |-> passes]
  /\ pc' = "checkInfile"
  /\ UNCHANGED <<events, passPos, visited, verified, emitted, exitCode>>

\* main: if (config.infile.empty()) return EXIT_FAILURE; compilerPipeline()
checkInfile ==
  /\ pc = "checkInfile"
  /\ IF config.infile = ""
       THEN /\ exitCode' = "EXIT_FAILURE"
            /\ pc' = "done"
       ELSE /\ exitCode' = exitCode
            /\ pc' = "frontend"
  /\ UNCHANGED <<config, events, passPos, visited, verified, emitted>>

\* frontendPipeline: parse, build the IR, verify it; when verification
\* fails, print the module and a message to std::cerr, and return.
frontendPipeline ==
  /\ pc = "frontend"
  /\ \E ok \in BOOLEAN :
       /\ verified' = IF ok THEN "ok" ELSE "failed"
       /\ events' = events \o
            (IF ok THEN <<Ev("frontend", 0, ""), Ev("verify", 0, "ok")>>
             ELSE <<Ev("frontend", 0, ""), Ev("verify", 0, "failed"),
                    Ev("diagnostic", 0, "IR verification failed")>>)
  /\ pc' = "initialize"
  /\ UNCHANGED <<config, passPos, visited, emitted, exitCode>>

\* compilerPipeline: TopAnalysisInfoManager(&module); tAIM.initialize()
initialize ==
  /\ pc = "initialize"
  /\ events' = Append(events, Ev("initialize", 0, ""))
  /\ pc' = "midend"
  /\ UNCHANGED <<config, passPos, visited, verified, emitted, exitCode>>

\* midendPipeline: PassManager(&module, &tAIM); pm.runPasses(config.passes)
midendPipeline ==
  /\ pc = "midend"
  /\ events' = Append(events, Ev("midend", 0, ""))
  /\ passPos' = 1
  /\ pc' = "runPasses"
  /\ UNCHANGED <<config, visited, verified, emitted, exitCode>>

\* What a pass does before it visits the functions: loopunroll asks the
\* manager to run loopsimplify.
subPasses(name) ==
  IF name = "loopunroll" THEN <<Ev("sub", 0, "loopsimplify")>> ELSE <<>>

\* runPasses that runs a name once, however often the list names it.
runPasses_skipRepeated ==
  /\ pc = "runPasses"
  /\ IF passPos > Len(config.passes)
       THEN /\ events' = Append(events, Ev("midendDone", 0, ""))
            /\ pc' = "dump"
            /\ UNCHANGED <<passPos, visited>>
     ELSE IF \E j \in 1..(passPos - 1) : config.passes[j] = config.passes[passPos]
       THEN /\ passPos' = passPos + 1
            /\ UNCHANGED <<events, pc, visited>>
     ELSE /\ events' = events \o <<Ev("start", passPos, config.passes[passPos])>>
                         \o subPasses(config.passes[passPos])
          /\ visited' = 0
          /\ pc' = "pass"
          /\ UNCHANGED passPos
  /\ UNCHANGED <<config, verified, emitted, exitCode>>

\* runPasses: the head of the loop over the list; resolves the name at
\* passPos and starts that pass, or returns when the list is exhausted.
runPasses ==
  /\ pc = "runPasses"
  /\ IF passPos > Len(config.passes)
       THEN /\ events' = Append(events, Ev("midendDone", 0, ""))
            /\ pc' = "dump"
            /\ UNCHANGED <<passPos, visited>>
     ELSE /\ events' = events \o <<Ev("start", passPos, config.passes[passPos])>>
                         \o subPasses(config.passes[passPos])
          /\ visited' = 0
          /\ pc' = "pass"
          /\ UNCHANGED passPos
  /\ UNCHANGED <<config, verified, emitted, exitCode>>

\* PassManager::run(FunctionPass*): the pass runs on the next function of
\* the module, or has run on all of them and returns to runPasses.
run ==
  /\ pc = "pass"
  /\ IF visited < Len(ModuleFuncs)
       THEN /\ events' = Append(events, Ev("run", passPos, ModuleFuncs[visited + 1]))
            /\ visited' = visited + 1
            /\ UNCHANGED <<pc, passPos>>
     ELSE /\ events' = Append(events, Ev("end", passPos, config.passes[passPos]))
          /\ passPos' = passPos + 1
          /\ pc' = "runPasses"
          /\ UNCHANGED visited
  /\ UNCHANGED <<config, verified, emitted, exitCode>>

\* dumpModule(module, config.outfile), then the test of config.genASM in
\* compilerPipeline.
dumpModule ==
  /\ pc = "dump"
  /\ events' = Append(events, Ev("dumpModule", 0, ""))
  /\ emitted' = IF config.genIR THEN emitted \cup {"ir"} ELSE emitted
  /\ pc' = IF config.genASM THEN "backend" ELSE "return"
  /\ UNCHANGED <<config, passPos, visited, verified, exitCode>>

\* A backend that is entered from the midend stage, before the passes ran.
backendPipeline_beforePasses ==
  /\ pc \in {"midend", "backend"}
  /\ events' = events \o <<Ev("backend", 0, ""), Ev("lower", 0, "")>>
  /\ emitted' = emitted \cup {"asm"}
  /\ pc' = "return"
  /\ UNCHANGED <<config, passPos, visited, verified, exitCode>>

\* backendPipeline: returns at once unless config.genASM; else lowers the
\* module to MIR and writes the assembly.
backendPipeline ==
  /\ pc = "backend"
  /\ IF ~config.genASM
       THEN /\ events' = Append(events, Ev("backend", 0, ""))
            /\ UNCHANGED emitted
     ELSE /\ events' = events \o <<Ev("backend", 0, ""), Ev("lower", 0, "")>>
          /\ emitted' = emitted \cup {"asm"}
  /\ pc' = "return"
  /\ UNCHANGED <<config, passPos, visited, verified, exitCode>>

\* main: return EXIT_SUCCESS after compilerPipeline()
mainReturn ==
  /\ pc = "return"
  /\ exitCode' = "EXIT_SUCCESS"
  /\ pc' = "done"
  /\ UNCHANGED <<config, events, passPos, visited, verified, emitted>>


(***************************************************************************)
(* Part IV.  IRBuilder: insertion point and makeInst                       *)
(***************************************************************************)
\* The most instructions made.
MaxInsts == 3

\* The blocks the builder works on.
Blocks == {"entry", "body"}

\* The kinds of instruction made (ValueId).
InstKinds == {"vADD", "vRETURN", "vBR"}

\* Return and branch end a block.
isTerminator(kind) == kind \in {"vRETURN", "vBR"}

VARIABLES
  insts,       \* block -> BasicBlock::insts(), the list of its instructions,
               \* each an Instruction [id, kind]
  parent,      \* the block of each instruction made, in the order made
  mBlock,      \* IRBuilder::mBlock, or "nullptr"
  mInsertPos,  \* IRBuilder::mInsertPos: the number of instructions of
               \* mBlock from the iterator's element to the end (end() is 0)
  made,        \* the instructions makeInst returned since the builder's
               \* position was last set, in the order made
  bdLast       \* the builder call that ran last

bdVars == <<insts, parent, mBlock, mInsertPos, made, bdLast>>

\* The builder call that ran last, with the builder's position and its
\* block's list before the call.
Call(op, block, inst) ==
  [op |-> op, block |-> block, inst |-> inst, pos |-> mInsertPos,
   before |-> IF block = "nullptr" THEN <<>> ELSE insts[block]]

\* The instruction of a call that makes none.
NoInst == [id |-> 0, kind |-> "none"]

\* The builder after IRBuilder(), and blocks without instructions.
BdInit ==
  /\ insts = [b \in Blocks |-> <<>>]
  /\ mBlock = "nullptr"
  /\ mInsertPos = 0
  /\ parent = <<>>
  /\ made = <<>>
  /\ bdLast = [op |-> "none", block |-> "nullptr", inst |-> NoInst, pos |-> 0,
               before |-> <<>>]

\* set_pos(block, pos): pos is an iterator of the block's list.
set_pos(block, pos) ==
  /\ pos \in 0..Len(insts[block])
  /\ mBlock' = block
  /\ mInsertPos' = pos
  /\ made' = <<>>
  /\ bdLast' = Call("set_pos", block, NoInst)
  /\ UNCHANGED <<insts, parent>>

\* set_pos(block): block->insts().begin()
set_pos_begin(block) ==
  /\ mBlock' = block
  /\ mInsertPos' = Len(insts[block])
  /\ made' = <<>>
  /\ bdLast' = Call("set_pos_begin", block, NoInst)
  /\ UNCHANGED <<insts, parent>>

\* setInsetPosEnd(block): block->insts().end()
setInsetPosEnd(block) ==
  /\ mBlock' = block
  /\ mInsertPos' = 0
  /\ made' = <<>>
  /\ bdLast' = Call("setInsetPosEnd", block, NoInst)
  /\ UNCHANGED <<insts, parent>>

\* insert that puts the instruction at the front of the list.
insert_atFront(list, pos, inst) == <<inst>> \o list

\* std::list::insert(pos, inst): inst goes in front of the iterator's
\* element, and the iterator stays on its element.
insert(list, pos, inst) ==
  SubSeq(list, 1, Len(list) - pos) \o <<inst>>
    \o SubSeq(list, Len(list) - pos + 1, Len(list))

\* makeInst<T>(args...): makes the instruction and, with a current block,
\* sets its block and inserts it at the insertion point.
makeInst(kind) ==
  LET inst == [id |-> Len(parent) + 1, kind |-> kind]
  IN /\ Len(parent) < MaxInsts
     /\ parent' = Append(parent, mBlock)
     /\ insts' = IF mBlock # "nullptr"
                   THEN [insts EXCEPT ![mBlock] = insert(@, mInsertPos, inst)]
                 ELSE insts
     /\ made' = Append(made, inst.id)
     /\ bdLast' = Call("makeInst", mBlock, inst)
     /\ UNCHANGED <<mBlock, mInsertPos>>

(***************************************************************************)
(* Part V.  Function: arguments and function type                          *)
(***************************************************************************)
\* The most new_arg calls on the function.
MaxArgs == 3

\* The largest value of the function's variable counter.
MaxVarCnt == 2

\* The types of arguments and of return values.
ArgTypes == {"i32", "float"}
RetTypes == {"void", "i32"}

\* The argument-type lists of the type a function is created with.
CreatedArgTypes == {<<>>, <<"i32">>, <<"i32", "float">>}

VARIABLES
  mType,       \* Function's Value::mType: "none" before the constructor,
               \* then a FunctionType [ret, args]
  mArguments,  \* Function::mArguments: sequence of Arguments [type, index]
  argCnt,      \* Function::argCnt
  mVarCnt,     \* Function::mVarCnt
  returned,    \* what the last varInc() returned
  created,     \* the FunctionType the constructor was given
  fnStopped,   \* an assert failed or an erase outside the vector crashed
  fnLast       \* the member function that ran last

fnVars ==
  <<mType, mArguments, argCnt, mVarCnt, returned, created, fnStopped, fnLast>>

\* FunctionType(ret_type, arg_types)
FunctionType(ret, args) == [ret |-> ret, args |-> args]

\* The type of a Function object that is not constructed yet.
NoType == FunctionType("none", <<>>)

\* Before the Function is constructed.
FnInit ==
  /\ mType = NoType
  /\ mArguments = <<>>
  /\ argCnt = 0
  /\ mVarCnt = 0
  /\ returned = 0
  /\ created = NoType
  /\ fnStopped = FALSE
  /\ fnLast = [op |-> "none", idx |-> 0, inRange |-> TRUE]

\* Function(TypeFunction, name, parent)
Function(TypeFunction) ==
  /\ mType = NoType
  /\ mType' = TypeFunction
  /\ created' = TypeFunction
  /\ argCnt' = 0
  /\ fnLast' = [op |-> "Function", idx |-> 0, inRange |-> TRUE]
  /\ UNCHANGED <<mArguments, mVarCnt, returned, fnStopped>>

\* Function::retType
retType == mType.ret

\* Function::new_arg(btype, name)
new_arg(btype) ==
  /\ mType # NoType
  /\ ~fnStopped
  /\ argCnt < MaxArgs
  /\ mArguments' = Append(mArguments, [type |-> btype, index |-> argCnt])
  /\ argCnt' = argCnt + 1
  /\ fnLast' = [op |-> "new_arg", idx |-> argCnt, inRange |-> TRUE]
  /\ UNCHANGED <<mType, mVarCnt, returned, created, fnStopped>>

\* Function::arg_i(idx): the assert compares idx with argCnt; at() throws
\* for an idx that is not below the vector's size.
NoArgument == [type |-> "none", index |-> 0]
arg_i(idx) ==
  IF idx < argCnt /\ idx < Len(mArguments) THEN mArguments[idx + 1]
  ELSE NoArgument

\* Function::varInc: return mVarCnt++
varInc ==
  /\ mType # NoType
  /\ ~fnStopped
  /\ mVarCnt < MaxVarCnt
  /\ returned' = mVarCnt
  /\ mVarCnt' = mVarCnt + 1
  /\ fnLast' = [op |-> "varInc", idx |-> mVarCnt, inRange |-> TRUE]
  /\ UNCHANGED <<mType, mArguments, argCnt, created, fnStopped>>

\* Function::setVarCnt(x)
setVarCnt(x) ==
  /\ mType # NoType
  /\ ~fnStopped
  /\ mVarCnt' = x
  /\ fnLast' = [op |-> "setVarCnt", idx |-> x, inRange |-> TRUE]
  /\ UNCHANGED <<mType, mArguments, argCnt, returned, created, fnStopped>>

\* std::vector::erase(begin() + idx)
erase(vec, idx) == SubSeq(vec, 1, idx) \o SubSeq(vec, idx + 2, Len(vec))

\* Function::delArgumant(idx): the assert compares idx with argCnt, which
\* new_arg increments and nothing decrements.  An idx the assert lets
\* through (or that a build without asserts does not test) and that is not
\* below the vector's size makes erase undefined: the program stops, or the
\* vector loses its last element, or stays as it is.
delArgumant(idx) ==
  /\ mType # NoType
  /\ ~fnStopped
  /\ fnLast' = [op |-> "delArgumant", idx |-> idx,
                inRange |-> (idx < Len(mArguments))]
  /\ IF idx < Len(mArguments)
       THEN /\ idx < argCnt
            /\ mArguments' = erase(mArguments, idx)
            /\ UNCHANGED fnStopped
     ELSE \/ /\ fnStopped' = TRUE
             /\ UNCHANGED mArguments
          \/ /\ mArguments' = SubSeq(mArguments, 1, Len(mArguments) - 1)
             /\ UNCHANGED fnStopped
          \/ UNCHANGED <<mArguments, fnStopped>>
  /\ UNCHANGED <<mType, argCnt, mVarCnt, returned, created>>

\* The types of a sequence of arguments, in order.
typesOf(args) == [k \in 1..Len(args) |-> args[k].type]

\* updateTypeFromArgs that leaves the function's type as it is.
updateTypeFromArgs_keepsType ==
  /\ mType # NoType
  /\ ~fnStopped
  /\ fnLast' = [op |-> "updateTypeFromArgs", idx |-> 0, inRange |-> TRUE]
  /\ UNCHANGED <<mType, mArguments, argCnt, mVarCnt, returned, created,
                 fnStopped>>

\* Function::updateTypeFromArgs
updateTypeFromArgs ==
  /\ mType # NoType
  /\ ~fnStopped
  /\ mType' = FunctionType(retType, typesOf(mArguments))
  /\ fnLast' = [op |-> "updateTypeFromArgs", idx |-> 0, inRange |-> TRUE]
  /\ UNCHANGED <<mArguments, argCnt, mVarCnt, returned, created, fnStopped>>


(***************************************************************************)
(* Part VI.  Loop: simplified form                                         *)
(***************************************************************************)
\* The blocks of the explored functions: a loop on header (and body when
\* body branches back), with entry, pre and other in front of it and exit
\* behind it.
LoopNodes == {"entry", "pre", "other", "header", "body", "exit"}

\* The branches a function may have.
CandidateEdges ==
  {<<"entry", "pre">>, <<"entry", "other">>, <<"entry", "header">>,
   <<"entry", "exit">>, <<"pre", "header">>, <<"pre", "exit">>,
   <<"other", "header">>, <<"other", "exit">>, <<"header", "header">>,
   <<"header", "body">>, <<"header", "exit">>, <<"body", "header">>,
   <<"body", "exit">>}

VARIABLES
  cfgEdges,  \* the branches of the function: pairs <<from, to>>
  loop,      \* the Loop object: mHeader, mBlocks, mExits, mLatchs
  lpLast     \* the query that ran last and its result

lpVars == <<cfgEdges, loop, lpLast>>

\* Before the loop analysis ran there is no Loop object.
NoLoop == [mHeader |-> "nullptr", mBlocks |-> {}, mExits |-> {}, mLatchs |-> {}]

LpInit ==
  /\ cfgEdges = {}
  /\ loop = NoLoop
  /\ lpLast = [op |-> "none", result |-> FALSE]

\* BasicBlock::pre_blocks and BasicBlock::next_blocks
pre_blocks(block) == {b \in LoopNodes : <<b, block>> \in cfgEdges}
next_blocks(block) == {b \in LoopNodes : <<block, b>> \in cfgEdges}

\* The loop analysis on a function with the given branches: the natural
\* loop of the back edges to header, its exits (blocks of the loop with a
\* successor outside it) and its latches (blocks of the loop that branch to
\* the header).
LoopAnalysis(edges) ==
  LET blocks  == IF <<"body", "header">> \in edges
                   THEN {"header", "body"} ELSE {"header"}
      latches == {b \in blocks : <<b, "header">> \in edges}
      exits   == {b \in blocks :
                    \E n \in LoopNodes \ blocks : <<b, n>> \in edges}
  IN /\ loop = NoLoop
     /\ <<"body", "header">> \in edges => <<"header", "body">> \in edges
     /\ latches # {}
     /\ cfgEdges' = edges
     /\ loop' = [mHeader |-> "header", mBlocks |-> blocks,
                 mExits |-> exits, mLatchs |-> latches]
     /\ lpLast' = [op |-> "LoopAnalysis", result |-> FALSE]

\* Loop::contains
contains(block) == block \in loop.mBlocks

\* Loop::getloopPredecessor: the one predecessor of the header outside the
\* loop, nullptr when there is none or more than one.
getloopPredecessor ==
  LET outside == {b \in pre_blocks(loop.mHeader) : ~contains(b)}
  IN IF Cardinality(outside) = 1 THEN CHOOSE b \in outside : TRUE
     ELSE "nullptr"

\* Loop::getLoopPreheader: the loop predecessor when the header is its only
\* successor, else nullptr.
getLoopPreheader ==
  LET pred == getloopPredecessor
  IN IF pred = "nullptr" THEN "nullptr"
     ELSE IF Cardinality(next_blocks(pred)) # 1 THEN "nullptr"
     ELSE pred

\* Loop::getLoopLatch: the latch when there is one, nullptr when there is
\* none or more than one.
getLoopLatch ==
  IF Cardinality(loop.mLatchs) = 1 THEN CHOOSE b \in loop.mLatchs : TRUE
  ELSE "nullptr"

\* Loop::hasDedicatedExits: no exit has a predecessor outside the loop.
hasDedicatedExits ==
  \A exitbb \in loop.mExits : \A pred \in pre_blocks(exitbb) : contains(pred)

\* isLoopSimplifyForm that does not ask for the latch.
isLoopSimplifyForm_withoutLatch ==
  /\ loop # NoLoop
  /\ lpLast' = [op |-> "isLoopSimplifyForm",
                result |-> (/\ getLoopPreheader # "nullptr"
                            /\ hasDedicatedExits)]
  /\ UNCHANGED <<cfgEdges, loop>>

\* Loop::isLoopSimplifyForm
isLoopSimplifyForm ==
  /\ loop # NoLoop
  /\ lpLast' = [op |-> "isLoopSimplifyForm",
                result |-> (/\ getLoopPreheader # "nullptr"
                            /\ getLoopLatch # "nullptr"
                            /\ hasDedicatedExits)]
  /\ UNCHANGED <<cfgEdges, loop>>


(***************************************************************************)
(* Part VII.  Types and their sizes                                        *)
(***************************************************************************)
\* The deepest nesting of pointer types.
MaxPtrDepth == 3

\* The largest dimension of an array type, and the most dimensions.
MaxDim == 3
MaxDims == 2

VARIABLES
  ty,      \* the Type object made last
  tyLast   \* the factory that made it

tyVars == <<ty, tyLast>>

\* Type(btype, size = 4)
Type(btype, size) == [mBtype |-> btype, mSize |-> size]

\* The size the Type constructor takes when none is given.
DefaultSize == 4

\* Before a type is made.
NoTy == Type("none", 0)

TyInit ==
  /\ ty = NoTy
  /\ tyLast = "none"

\* Type::size
size(t) == t.mSize

\* Type::void_type, Type::TypeInt32, Type::TypeFloat32: objects made by the
\* Type constructor with its default size.
void_type == Type("VOID", DefaultSize)
TypeInt32 == Type("INT32", DefaultSize)
TypeFloat32 == Type("FLOAT", DefaultSize)

\* A pointer type whose size is the size of what it points to.
PointerType_sizeOfBase(baseType) ==
  [mBtype |-> "POINTER", mSize |-> size(baseType), mBaseType |-> baseType]

\* PointerType(baseType) : Type(BasicTypeRank::POINTER, 8)
PointerType(baseType) ==
  [mBtype |-> "POINTER", mSize |-> 8, mBaseType |-> baseType]

\* ArrayType(baseType, dims, capacity) : Type(BasicTypeRank::ARRAY,
\* capacity * 4); capacity is counted in words.
ArrayType(baseType, dims, capacity) ==
  [mBtype |-> "ARRAY", mSize |-> capacity * 4, mBaseType |-> baseType,
   mDims |-> dims]

\* FunctionType(ret_type, arg_types) : Type(BasicTypeRank::FUNCTION, 8)
FunctionTypeObject(ret_type, arg_types) ==
  [mBtype |-> "FUNCTION", mSize |-> 8, mRetType |-> ret_type,
   mArgTypes |-> arg_types]

\* The number of pointer types around a type.
RECURSIVE ptrDepth(_)
ptrDepth(t) == IF t.mBtype = "POINTER" THEN 1 + ptrDepth(t.mBaseType) ELSE 0

\* The product of the dimensions.
RECURSIVE product(_)
product(dims) == IF dims = <<>> THEN 1 ELSE Head(dims) * product(Tail(dims))

\* The dimension lists of the explored array types.
DimLists == UNION {[1..n -> 1..MaxDim] : n \in 1..MaxDims}

\* Type::void_type(), Type::TypeInt32(), Type::TypeFloat32()
BasicTypeFactory ==
  /\ \E t \in {void_type, TypeInt32, TypeFloat32} : ty' = t
  /\ tyLast' = "basic"

\* Type::TypePointer(baseType), on the type made last.
TypePointer ==
  /\ ty # NoTy
  /\ ptrDepth(ty) < MaxPtrDepth
  /\ ty' = PointerType(ty)
  /\ tyLast' = "TypePointer"

\* Type::TypeArray(baseType, dims, capacity = 1): called with the number of
\* elements as capacity, or without a capacity.
TypeArray ==
  /\ \E baseType \in {TypeInt32, TypeFloat32}, dims \in DimLists :
       \E capacity \in {1, product(dims)} :
         ty' = ArrayType(baseType, dims, capacity)
  /\ tyLast' = "TypeArray"

\* Type::TypeFunction(ret_type, param_types)
TypeFunction ==
  /\ \E ret_type \in {void_type, TypeInt32},
        param_types \in {<<>>, <<TypeInt32>>, <<TypeInt32, TypeFloat32>>} :
       ty' = FunctionTypeObject(ret_type, param_types)
  /\ tyLast' = "TypeFunction"


(***************************************************************************)
(* Part VIII.  Hash containers keyed on object identity                    *)
(***************************************************************************)
\* The two runs on the same input.
Runs == {1, 2}

\* The objects whose addresses key the Loop's unordered sets: the blocks
\* of the loop and its direct sub-loops.
HashedObjects == {"header", "body", "latch", "sub1", "sub2"}

\* The Loop of the input: the same in both runs.
TheLoop ==
  [mHeader |-> "header", mBlocks |-> {"header", "body", "latch"},
   mExits |-> {"header", "latch"}, mLatchs |-> {"latch"},
   mSubLoops |-> {"sub1", "sub2"}]

\* mHeader->next_blocks(), a list: the same order in both runs.
headerNextBlocks == <<"after", "body">>

\* The orders in which a run's hash function can lay out the objects.
HashOrders ==
  {o \in [1..Cardinality(HashedObjects) -> HashedObjects] :
     \A i, j \in DOMAIN o : o[i] = o[j] => i = j}

VARIABLES
  hashOrder,  \* run -> the order its unordered containers iterate in
  answer,     \* run -> what the last query returned in that run
  detLast     \* the query that ran last in both runs

detVars == <<hashOrder, answer, detLast>>

DetInit ==
  /\ hashOrder = [r \in Runs |-> <<>>]
  /\ answer = [r \in Runs |-> <<>>]
  /\ detLast = "none"

\* The two runs start: each lays out its objects in some order.
StartRuns ==
  /\ detLast = "none"
  /\ \E o1 \in HashOrders, o2 \in HashOrders :
       hashOrder' = [r \in Runs |-> IF r = 1 THEN o1 ELSE o2]
  /\ detLast' = "start"
  /\ UNCHANGED answer

\* for (auto x : set) over a std::unordered_set in a run.
iterate(set, r) == SelectSeq(hashOrder[r], LAMBDA x : x \in set)

\* Both runs make the same query.
Query(name, results) ==
  /\ detLast # "none"
  /\ answer' = results
  /\ detLast' = name
  /\ UNCHANGED hashOrder

\* Loop::getUniqueLatch: assert(mLatchs.size() == 1); *(mLatchs.begin())
getUniqueLatch ==
  /\ Cardinality(TheLoop.mLatchs) = 1
  /\ Query("getUniqueLatch",
           [r \in Runs |-> <<Head(iterate(TheLoop.mLatchs, r))>>])

\* Loop::getFirstBodyBlock: the first block of mHeader->next_blocks() that
\* the loop contains.
getFirstBodyBlock ==
  LET inLoop == SelectSeq(headerNextBlocks, LAMBDA b : b \in TheLoop.mBlocks)
  IN /\ inLoop # <<>>
     /\ Query("getFirstBodyBlock", [r \in Runs |-> <<Head(inLoop)>>])

\* for (auto bb : loop->blocks()), for (auto bb : loop->exits()),
\* for (auto sub : loop->subLoops())
traverseBlocks == Query("blocks", [r \in Runs |-> iterate(TheLoop.mBlocks, r)])
traverseExits == Query("exits", [r \in Runs |-> iterate(TheLoop.mExits, r)])
traverseSubLoops ==
  Query("subLoops", [r \in Runs |-> iterate(TheLoop.mSubLoops, r)])


(***************************************************************************)
(* Part IX.  Conditional constant propagation (sccp / scp)                 *)
(***************************************************************************)
\* The SSA values of the explored functions.  The value a is also the
\* condition of the function's one conditional branch.
SsaValues == {"a", "b", "c"}

\* The lattice: undef below the constants, the constants below overdefined.
Lattice == {"undef", "c0", "c1", "over"}

\* The height of a lattice value.
rank(l) ==
  CASE l = "undef" -> 0
    [] l \in {"c0", "c1"} -> 1
    [] l = "over" -> 2

\* The operand pairs of a product, each unordered pair once.
MulOperands ==
  {<<"a", "a">>, <<"a", "b">>, <<"a", "c">>, <<"b", "b">>, <<"b", "c">>,
   <<"c", "c">>}

\* The definitions a value can have: a constant, a product of two values,
\* or a phi whose second operand comes in over the edge the branch on a
\* takes when a is not zero.
Definitions ==
  [op : {"const0", "const1"}, x : {"a"}, y : {"a"}]
    \cup {[op |-> "mul", x |-> p[1], y |-> p[2]] : p \in MulOperands}
    \cup [op : {"phi"}, x : SsaValues, y : SsaValues]

VARIABLES
  defOf,       \* value -> its definition
  lat,         \* value -> its lattice value
  worklist,    \* the values to evaluate again
  executable,  \* whether the guarded edge has been found executable
  phase        \* "none" before the pass, "run", then "done"

sccpVars == <<defOf, lat, worklist, executable, phase>>

SccpInit ==
  /\ defOf = [v \in SsaValues |-> [op |-> "const0", x |-> "a", y |-> "a"]]
  /\ lat = [v \in SsaValues |-> "undef"]
  /\ worklist = {}
  /\ executable = FALSE
  /\ phase = "none"

\* The pass starts on a function: every value is undef and on the worklist.
RunOnFunction(defs) ==
  /\ phase = "none"
  /\ defOf' = defs
  /\ lat' = [v \in SsaValues |-> "undef"]
  /\ worklist' = SsaValues
  /\ executable' = FALSE
  /\ phase' = "run"

\* A meet of two different constants that falls back to undef.
meet_dropsToUndef(l, m) ==
  IF l = "undef" THEN m
  ELSE IF m = "undef" THEN l
  ELSE IF l = m THEN l
  ELSE IF l = "over" \/ m = "over" THEN "over"
  ELSE "undef"

\* The meet of the lattice values of two phi operands.
meet(l, m) ==
  IF l = "undef" THEN m
  ELSE IF m = "undef" THEN l
  ELSE IF l = m THEN l
  ELSE "over"

\* The lattice value of a product.
times(l, m) ==
  IF l = "undef" \/ m = "undef" THEN "undef"
  ELSE IF l = "over" \/ m = "over" THEN "over"
  ELSE IF l = "c1" /\ m = "c1" THEN "c1"
  ELSE "c0"

\* The lattice value the definition of v evaluates to now.
evaluate(v) ==
  LET d == defOf[v]
  IN CASE d.op = "const0" -> "c0"
       [] d.op = "const1" -> "c1"
       [] d.op = "mul"    -> times(lat[d.x], lat[d.y])
       [] d.op = "phi"    -> IF executable THEN meet(lat[d.x], lat[d.y])
                             ELSE meet(lat[d.x], "undef")

\* The values whose definition reads v.
usersOf(v) ==
  {u \in SsaValues :
     defOf[u].op \in {"mul", "phi"} /\ (defOf[u].x = v \/ defOf[u].y = v)}

\* The phis of the function.
phis == {u \in SsaValues : defOf[u].op = "phi"}

\* One turn of the worklist loop: take a value off the worklist and
\* evaluate it; when its lattice value changed, put its users on the
\* worklist, and when it is the branch condition and is no longer known to
\* be zero, mark the guarded edge executable and put the phis on it.
Propagate(v) ==
  LET new     == evaluate(v)
      changed == new # lat[v]
      opens   == v = "a" /\ ~executable /\ new \in {"c1", "over"}
  IN /\ phase = "run"
     /\ v \in worklist
     /\ lat' = [lat EXCEPT ![v] = new]
     /\ executable' = (executable \/ opens)
     /\ worklist' = (worklist \ {v})
                      \cup (IF changed THEN usersOf(v) ELSE {})
                      \cup (IF opens THEN phis ELSE {})
     /\ UNCHANGED <<defOf, phase>>

\* The worklist is empty: the pass stops.
Stop ==
  /\ phase = "run"
  /\ worklist = {}
  /\ phase' = "done"
  /\ UNCHANGED <<defOf, lat, worklist, executable>>


(***************************************************************************)
(* Part X.  IRBuilder: naming counters, loop and target stacks, reset      *)
(***************************************************************************)
\* The deepest loop nesting, the deepest nesting of short-circuit targets,
\* and the most increments of the naming counters.
MaxLoopDepth == 2
MaxTargetDepth == 1
MaxCount == 1

VARIABLES
  counters,        \* ifNum, whileNum, rhsNum, funcNum, varNum, blockNum
  _headers,        \* stack of loop headers, top last
  _exits,          \* stack of loop exits, top last
  _true_targets,   \* stack of true targets, top last
  _false_targets,  \* stack of false targets, top last
  open,            \* while paired, the <<header, exit>> pairs of the
                   \* push_loop calls not yet popped, innermost last
  paired,          \* the loop stacks were changed by push_loop and
                   \* pop_loop only, and pops never outnumbered pushes
  bcStopped,       \* the program stopped in pop() on an empty stack
  bcLast           \* the builder call that ran last

bcVars ==
  <<counters, _headers, _exits, _true_targets, _false_targets, open, paired,
    bcStopped, bcLast>>

\* The counters of IRBuilder().
ZeroCounters ==
  [ifNum |-> 0, whileNum |-> 0, rhsNum |-> 0, funcNum |-> 0, varNum |-> 0,
   blockNum |-> 0]

\* The builder after IRBuilder().
BcInit ==
  /\ counters = ZeroCounters
  /\ _headers = <<>>
  /\ _exits = <<>>
  /\ _true_targets = <<>>
  /\ _false_targets = <<>>
  /\ open = <<>>
  /\ paired = TRUE
  /\ bcStopped = FALSE
  /\ bcLast = "none"

\* std::stack::push, pop and top; pop leaves an empty stack as it is.
push(stack, block) == Append(stack, block)
pop(stack) == SubSeq(stack, 1, Len(stack) - 1)
top(stack) == stack[Len(stack)]

\* IRBuilder::header and IRBuilder::exit
header == IF _headers # <<>> THEN top(_headers) ELSE "nullptr"
exit == IF _exits # <<>> THEN top(_exits) ELSE "nullptr"

\* The increments made so far.
total(c) == c.ifNum + c.whileNum + c.rhsNum + c.funcNum

\* if_inc, while_inc, rhs_inc, func_inc: one counter goes up by one.
inc(counter) ==
  /\ ~bcStopped
  /\ total(counters) < MaxCount
  /\ counters' = [counters EXCEPT ![counter] = @ + 1]
  /\ bcLast' = "inc"
  /\ UNCHANGED <<_headers, _exits, _true_targets, _false_targets, open,
                 paired, bcStopped, mBlock, mInsertPos, insts, parent, made,
                 bdLast>>

\* push_header(block)
push_header(block) ==
  /\ ~bcStopped
  /\ Len(_headers) < MaxLoopDepth
  /\ _headers' = push(_headers, block)
  /\ paired' = FALSE
  /\ open' = <<>>
  /\ bcLast' = "push_header"
  /\ UNCHANGED <<counters, _exits, _true_targets, _false_targets,
                 bcStopped, mBlock, mInsertPos, insts, parent, made,
                 bdLast>>

\* push_exit(block)
push_exit(block) ==
  /\ ~bcStopped
  /\ Len(_exits) < MaxLoopDepth
  /\ _exits' = push(_exits, block)
  /\ paired' = FALSE
  /\ open' = <<>>
  /\ bcLast' = "push_exit"
  /\ UNCHANGED <<counters, _headers, _true_targets, _false_targets,
                 bcStopped, mBlock, mInsertPos, insts, parent, made,
                 bdLast>>

\* push_loop(header_block, exit_block)
push_loop(header_block, exit_block) ==
  /\ ~bcStopped
  /\ Len(_headers) < MaxLoopDepth
  /\ Len(_exits) < MaxLoopDepth
  /\ _headers' = push(_headers, header_block)
  /\ _exits' = push(_exits, exit_block)
  /\ open' = IF paired THEN Append(open, <<header_block, exit_block>>)
             ELSE <<>>
  /\ bcLast' = "push_loop"
  /\ UNCHANGED <<counters, _true_targets, _false_targets, paired, bcStopped,
                 mBlock, mInsertPos, insts, parent, made,
                 bdLast>>

\* pop_loop that pops the header stack only.
pop_loop_headersOnly ==
  /\ ~bcStopped
  /\ bcLast' = "pop_loop"
  /\ IF _headers = <<>>
       THEN /\ bcStopped' \in BOOLEAN
            /\ paired' = FALSE
            /\ open' = <<>>
            /\ UNCHANGED <<_headers, _exits>>
     ELSE /\ _headers' = pop(_headers)
          /\ open' = pop(open)
          /\ UNCHANGED <<_exits, paired, bcStopped>>
  /\ UNCHANGED <<counters, _true_targets, _false_targets, mBlock, mInsertPos,
                 insts, parent, made,
                 bdLast>>

\* pop_loop(): pops both stacks.  pop() on an empty stack is undefined: the
\* program stops there, or goes on with that stack as it was.
pop_loop ==
  /\ ~bcStopped
  /\ bcLast' = "pop_loop"
  /\ IF _headers = <<>> \/ _exits = <<>>
       THEN /\ bcStopped' \in BOOLEAN
            /\ paired' = FALSE
            /\ open' = <<>>
            /\ _headers' = pop(_headers)
            /\ _exits' = pop(_exits)
     ELSE /\ _headers' = pop(_headers)
          /\ _exits' = pop(_exits)
          /\ open' = pop(open)
          /\ UNCHANGED <<paired, bcStopped>>
  /\ UNCHANGED <<counters, _true_targets, _false_targets, mBlock, mInsertPos,
                 insts, parent, made,
                 bdLast>>

\* push_tf(true_block, false_block)
push_tf(true_block, false_block) ==
  /\ ~bcStopped
  /\ Len(_true_targets) < MaxTargetDepth
  /\ _true_targets' = push(_true_targets, true_block)
  /\ _false_targets' = push(_false_targets, false_block)
  /\ bcLast' = "push_tf"
  /\ UNCHANGED <<counters, _headers, _exits, open, paired, bcStopped, mBlock,
                 mInsertPos, insts, parent, made,
                 bdLast>>

\* pop_tf(): pops both stacks, with pop() on an empty stack as in pop_loop.
pop_tf ==
  /\ ~bcStopped
  /\ bcLast' = "pop_tf"
  /\ IF _true_targets = <<>> \/ _false_targets = <<>>
       THEN /\ bcStopped' \in BOOLEAN
            /\ UNCHANGED <<_true_targets, _false_targets>>
     ELSE /\ _true_targets' = pop(_true_targets)
          /\ _false_targets' = pop(_false_targets)
          /\ UNCHANGED bcStopped
  /\ UNCHANGED <<counters, _headers, _exits, open, paired, mBlock, mInsertPos,
                 insts, parent, made,
                 bdLast>>

\* reset(): the six counters to zero, no current block, a
\* default-constructed insertion position.
reset ==
  /\ ~bcStopped
  /\ counters' = ZeroCounters
  /\ mBlock' = "nullptr"
  /\ mInsertPos' = 0
  /\ bcLast' = "reset"
  /\ UNCHANGED <<_headers, _exits, _true_targets, _false_targets, open,
                 paired, bcStopped, insts, parent, made,
                 bdLast>>

\* setInsetPosEnd(block), which gives the builder a current block.
enterBlock(block) ==
  /\ ~bcStopped
  /\ setInsetPosEnd(block)
  /\ bcLast' = "setInsetPosEnd"
  /\ UNCHANGED <<counters, _headers, _exits, _true_targets, _false_targets,
                 open, paired, bcStopped>>

\* The state of the other parts, which an operation of one part leaves alone.
notDu == <<aimVars, drvVars, bdVars, fnVars, lpVars, tyVars, detVars, sccpVars, bcVars>>
notAim == <<duVars, drvVars, bdVars, fnVars, lpVars, tyVars, detVars, sccpVars, bcVars>>
notDrv == <<duVars, aimVars, bdVars, fnVars, lpVars, tyVars, detVars, sccpVars, bcVars>>
notBd == <<duVars, aimVars, drvVars, fnVars, lpVars, tyVars, detVars, sccpVars, bcVars>>
notFn == <<duVars, aimVars, drvVars, bdVars, lpVars, tyVars, detVars, sccpVars, bcVars>>
notLp == <<duVars, aimVars, drvVars, bdVars, fnVars, tyVars, detVars, sccpVars, bcVars>>
notTy == <<duVars, aimVars, drvVars, bdVars, fnVars, lpVars, detVars, sccpVars, bcVars>>
notDet == <<duVars, aimVars, drvVars, bdVars, fnVars, lpVars, tyVars, sccpVars, bcVars>>
notSccp == <<duVars, aimVars, drvVars, bdVars, fnVars, lpVars, tyVars, detVars, bcVars>>
notBc == <<duVars, aimVars, drvVars, bdVars, fnVars, lpVars, tyVars, detVars, sccpVars>>
notBuilder == <<duVars, aimVars, drvVars, fnVars, lpVars, tyVars, detVars, sccpVars>>

\* The operations on the def-use graph.
DuNext ==
  \/ \E x \in Users, v \in Values : addOperand(x, v) /\ UNCHANGED notDu
  \/ \E x \in Users, i \in 0..(MaxUses - 1), v \in Values :
       setOperand(x, i, v) /\ UNCHANGED notDu
  \/ \E old \in Values, new \in Values :
       replaceAllUseWith(old, new) /\ UNCHANGED notDu
  \/ \E x \in Users : unuse_allvalue(x) /\ UNCHANGED notDu

\* The functions whose CFG the passes change, and on which every getter is
\* called; the other definition, g, is asked for its dominator tree and its
\* induction variables only.
CfgFuncs == {"main", "decl"}

\* The manager's getters and invalidation hooks.
AimNext ==
  \/ \E func \in Funcs : getDomTree(func) /\ UNCHANGED notAim
  \/ \E func \in CfgFuncs : getPDomTree(func) /\ UNCHANGED notAim
  \/ \E func \in CfgFuncs : getLoopInfo(func) /\ UNCHANGED notAim
  \/ \E func \in Funcs : getIndVarInfo(func) /\ UNCHANGED notAim
  \/ \E func \in CfgFuncs : getDepInfo(func) /\ UNCHANGED notAim
  \/ \E func \in CfgFuncs : getParallelInfo(func) /\ UNCHANGED notAim
  \/ getCallGraph /\ UNCHANGED notAim
  \/ getSideEffectInfo /\ UNCHANGED notAim
  \/ \E func \in Funcs : CFGChange(func) /\ UNCHANGED notAim
  \/ CallChange /\ UNCHANGED notAim
  \/ \E func \in Funcs : IndVarChange(func) /\ UNCHANGED notAim
  \/ \E func \in CfgFuncs : ParallelAnalysis(func) /\ UNCHANGED notAim

\* The getters that do not refresh, next to those that do and CFGChange.
WrNext ==
  \/ \E func \in Funcs : getDomTreeWithoutRefresh(func) /\ UNCHANGED notAim
  \/ \E func \in Funcs : getPDomTreeWithoutRefresh(func) /\ UNCHANGED notAim
  \/ \E func \in Funcs : getLoopInfoWithoutRefresh(func) /\ UNCHANGED notAim
  \/ \E func \in Funcs : getIndVarInfoWithoutRefresh(func) /\ UNCHANGED notAim
  \/ \E func \in Funcs : getDepInfoWithoutRefresh(func) /\ UNCHANGED notAim
  \/ \E func \in Funcs : getDomTree(func) /\ UNCHANGED notAim
  \/ \E func \in CfgFuncs : getLoopInfo(func) /\ UNCHANGED notAim
  \/ \E func \in Funcs : CFGChange(func) /\ UNCHANGED notAim

\* CFG changes, CFGChange calls and per-function getter calls.
CfgNext ==
  \/ \E func \in CfgFuncs : MutateCFG(func) /\ UNCHANGED notAim
  \/ \E func \in CfgFuncs : CFGChange(func) /\ UNCHANGED notAim
  \/ \E func \in CfgFuncs : getDomTree(func) /\ UNCHANGED notAim
  \/ \E func \in CfgFuncs : getPDomTree(func) /\ UNCHANGED notAim
  \/ \E func \in CfgFuncs : getLoopInfo(func) /\ UNCHANGED notAim
  \/ \E func \in CfgFuncs : getIndVarInfo(func) /\ UNCHANGED notAim
  \/ \E func \in CfgFuncs : getDepInfo(func) /\ UNCHANGED notAim
  \/ \E func \in CfgFuncs : getParallelInfo(func) /\ UNCHANGED notAim

\* The steps of main and of the pipeline it calls.
DrvNext ==
  \/ parseCmdArgs /\ UNCHANGED notDrv
  \/ checkInfile /\ UNCHANGED notDrv
  \/ frontendPipeline /\ UNCHANGED notDrv
  \/ initialize /\ UNCHANGED notDrv
  \/ midendPipeline /\ UNCHANGED notDrv
  \/ runPasses /\ UNCHANGED notDrv
  \/ run /\ UNCHANGED notDrv
  \/ dumpModule /\ UNCHANGED notDrv
  \/ backendPipeline /\ UNCHANGED notDrv
  \/ mainReturn /\ UNCHANGED notDrv


\* The calls on the builder.
BdNext ==
  \/ \E block \in Blocks, pos \in 0..MaxInsts :
       set_pos(block, pos) /\ UNCHANGED notBd
  \/ \E block \in Blocks : set_pos_begin(block) /\ UNCHANGED notBd
  \/ \E block \in Blocks : setInsetPosEnd(block) /\ UNCHANGED notBd
  \/ \E kind \in InstKinds : makeInst(kind) /\ UNCHANGED notBd


\* The construction of a function and the calls on its arguments.
FnNext ==
  \/ \E ret \in RetTypes, args \in CreatedArgTypes :
       Function(FunctionType(ret, args)) /\ UNCHANGED notFn
  \/ \E btype \in ArgTypes : new_arg(btype) /\ UNCHANGED notFn
  \/ \E idx \in 0..(MaxArgs - 1) : delArgumant(idx) /\ UNCHANGED notFn
  \/ updateTypeFromArgs /\ UNCHANGED notFn
  \/ varInc /\ UNCHANGED notFn
  \/ \E x \in 0..MaxVarCnt : setVarCnt(x) /\ UNCHANGED notFn


\* The loop analysis of a function, then queries on the loop.
LpNext ==
  \/ /\ loop = NoLoop
     /\ \E edges \in SUBSET CandidateEdges : LoopAnalysis(edges)
     /\ UNCHANGED notLp
  \/ isLoopSimplifyForm /\ UNCHANGED notLp


\* The factories of types.
TyNext ==
  \/ BasicTypeFactory /\ UNCHANGED notTy
  \/ TypePointer /\ UNCHANGED notTy
  \/ TypeArray /\ UNCHANGED notTy
  \/ TypeFunction /\ UNCHANGED notTy


\* Two runs on the same input, making the same queries.
DetNext ==
  \/ StartRuns /\ UNCHANGED notDet
  \/ getUniqueLatch /\ UNCHANGED notDet
  \/ getFirstBodyBlock /\ UNCHANGED notDet
  \/ traverseBlocks /\ UNCHANGED notDet
  \/ traverseExits /\ UNCHANGED notDet
  \/ traverseSubLoops /\ UNCHANGED notDet


\* The pass on one function.
SccpNext ==
  \/ /\ phase = "none"
     /\ \E defs \in [SsaValues -> Definitions] : RunOnFunction(defs)
     /\ UNCHANGED notSccp
  \/ \E v \in SsaValues : Propagate(v) /\ UNCHANGED notSccp
  \/ Stop /\ UNCHANGED notSccp


\* The calls on the builder's counters, stacks and current block.
BcNext ==
  \/ \E counter \in {"ifNum", "whileNum", "rhsNum", "funcNum"} :
       inc(counter) /\ UNCHANGED notBuilder
  \/ \E block \in Blocks : push_header(block) /\ UNCHANGED notBuilder
  \/ \E block \in Blocks : push_exit(block) /\ UNCHANGED notBuilder
  \/ \E header_block \in Blocks, exit_block \in Blocks :
       push_loop(header_block, exit_block) /\ UNCHANGED notBuilder
  \/ pop_loop /\ UNCHANGED notBuilder
  \/ \E true_block \in Blocks, false_block \in Blocks :
       push_tf(true_block, false_block) /\ UNCHANGED notBuilder
  \/ pop_tf /\ UNCHANGED notBuilder
  \/ reset /\ UNCHANGED notBuilder
  \/ \E block \in Blocks : enterBlock(block) /\ UNCHANGED notBuilder

(***************************************************************************)
(* Specifications                                                          *)
(***************************************************************************)
vars == <<duVars, aimVars, drvVars, bdVars, fnVars, lpVars, tyVars, detVars, sccpVars, bcVars>>

Init == DuInit /\ AimInit /\ DrvInit /\ BdInit /\ FnInit /\ LpInit /\ TyInit /\ DetInit /\ SccpInit /\ BcInit

\* The def-use graph under its operations.
DuSpec == Init /\ [][DuNext]_vars

\* The analysis manager under its getters and invalidation hooks.
AimSpec == Init /\ [][AimNext]_vars

\* The analysis manager under the getters that do not refresh.
WrSpec == Init /\ [][WrNext]_vars

\* The analysis manager under passes that change the CFG of a function.
CfgSpec == Init /\ [][CfgNext]_vars

\* One run of the compiler, from main to its return.
DrvSpec == Init /\ [][DrvNext]_vars


\* The builder under insertion-point changes and makeInst calls.
BdSpec == Init /\ [][BdNext]_vars


\* A function under new_arg, delArgumant and updateTypeFromArgs.
FnSpec == Init /\ [][FnNext]_vars


\* Loops of every explored CFG under isLoopSimplifyForm.
LpSpec == Init /\ [][LpNext]_vars


\* The types the factories make.
TySpec == Init /\ [][TyNext]_vars


\* Two runs that differ in the iteration order of their hash containers.
DetSpec == Init /\ [][DetNext]_vars


\* The pass runs to completion: its loop is never suspended.
SccpSpec == Init /\ [][SccpNext]_vars /\ WF_vars(SccpNext)


\* The builder under calls on its counters, stacks and current block.
BcSpec == Init /\ [][BcNext]_vars

(***************************************************************************)
(* Properties of the def-use graph                                         *)
(***************************************************************************)
\* Every Use in a use-list is the operand of its user at its index, and
\* names the value whose list holds it.
UseListsMatchOperands ==
  \A v \in Values : \A u \in mUses[v] :
    /\ mUse[u].mValue = v
    /\ mUse[u].mIndex < Len(mOperands[mUse[u].mUser])
    /\ mOperands[mUse[u].mUser][mUse[u].mIndex + 1] = u

\* Every operand of user x is in the use-list of the value it names.
OperandsRegistered(x) ==
  \A k \in 1..Len(mOperands[x]) :
    mOperands[x][k] \in mUses[mUse[mOperands[x][k]].mValue]

\* C1 (as stated): after any sequence of addOperand, setOperand,
\* replaceAllUseWith and unuse_allvalue calls the use-lists and the operand
\* vectors describe the same set of edges, in both directions.
C1_BothDirections ==
  UseListsMatchOperands /\ \A x \in Users : OperandsRegistered(x)

\* C1 (amended): every Use in a use-list is the operand of its user at its
\* index and names that value; and every operand of every user on which
\* unuse_allvalue has not been called is in the use-list of its value.
C1_DefUseConsistent ==
  UseListsMatchOperands /\ \A x \in Users \ dropped : OperandsRegistered(x)

\* a user was dropped, and a live user has had an operand re-set
C1_Witness ==
  /\ dropped # {}
  /\ duLast.op = "setOperand"
  /\ duLast.user \notin dropped
  /\ duLast.other # duLast.value
  /\ \E v \in Values : Cardinality(mUses[v]) >= 2

\* the step is replaceAllUseWith(old, new)
RauwStep(old, new) ==
  /\ duLast'.op = "replaceAllUseWith"
  /\ duLast'.value = old
  /\ duLast'.other = new

\* what C2 says holds after replaceAllUseWith(old, new)
C2_Post(old, new) ==
  /\ mUses'[old] = {}
  /\ \A u \in mUses[old] :
       /\ mUse'[u].mValue = new
       /\ u \in mUses'[new]
       /\ mUse'[u].mUser = mUse[u].mUser
       /\ mUse'[u].mIndex = mUse[u].mIndex
       /\ mOperands'[mUse[u].mUser][mUse[u].mIndex + 1] = u
  /\ mUses[new] \subseteq mUses'[new]

\* C2 (as stated): replaceAllUseWith(old, new) with matching types empties
\* old.uses and moves every Use to new with user and index unchanged,
\* keeping the Uses new already had.
C2_MovesEveryUse ==
  [][\A old \in Values, new \in Values :
       (RauwStep(old, new) /\ typeOf(old) = typeOf(new)) => C2_Post(old, new)]_vars

\* C2 (amended): the same, for new a value other than old.
C2_MovesEveryUseToOther ==
  [][\A old \in Values, new \in Values :
       (RauwStep(old, new) /\ typeOf(old) = typeOf(new) /\ old # new)
         => C2_Post(old, new)]_vars

\* a replacement moved a Use to another value that already had one
C2_Witness ==
  /\ duLast.op = "replaceAllUseWith"
  /\ duLast.value # duLast.other
  /\ typeOf(duLast.value) = typeOf(duLast.other)
  /\ duLast.n >= 1
  /\ Cardinality(mUses[duLast.other]) > duLast.n
  /\ mUses[duLast.value] = {}

\* the step is setOperand(x, i, v)
SetOperandStep(x, i, v) ==
  /\ duLast'.op = "setOperand"
  /\ duLast'.user = x
  /\ duLast'.index = i
  /\ duLast'.value = v

\* C3: setOperand(user, i, new_value) removes operand i's Use from the old
\* value's use-list and adds it to new_value's, keeps the Use at index i,
\* and leaves every other operand and every other user's operands unchanged.
C3_SetOperandFrame ==
  [][\A x \in Users, i \in 0..(MaxUses - 1), v \in Values :
       SetOperandStep(x, i, v) =>
         LET u   == mOperands[x][i + 1]
             old == mUse[u].mValue
         IN /\ mOperands' = mOperands
            /\ u \in mUses'[v]
            /\ old # v => u \notin mUses'[old]
            /\ mUse'[u] = [mUse[u] EXCEPT !.mValue = v]
            /\ \A w \in UseIds \ {u} : mUse'[w] = mUse[w]
            /\ \A w \in Values : mUses'[w] \ {u} = mUses[w] \ {u}]_vars

\* an operand of a two-operand user was moved to another value, while the
\* other user holds an operand too
C3_Witness ==
  /\ duLast.op = "setOperand"
  /\ duLast.other # duLast.value
  /\ Len(mOperands[duLast.user]) = 2
  /\ mOperands[duLast.user][duLast.index + 1] \in mUses[duLast.value]
  /\ \E y \in Users \ {duLast.user} : Len(mOperands[y]) >= 1

\* C4: after unuse_allvalue on a user no use-list contains a Use of that
\* user, also when one value is several of its operands; the use-lists keep
\* every Use of the other users.
C4_UnuseAll ==
  [][\A x \in Users :
       (duLast'.op = "unuse_allvalue" /\ duLast'.user = x) =>
         /\ \A v \in Values : \A u \in mUses'[v] : mUse'[u].mUser # x
         /\ \A v \in Values :
              {u \in mUses[v] : mUse[u].mUser # x} \subseteq mUses'[v]]_vars

\* a user whose two operands are the same value was dropped, and that value
\* keeps the Use of the other user
C4_Witness ==
  /\ duLast.op = "unuse_allvalue"
  /\ duLast.n = 2
  /\ Len(mOperands[duLast.user]) = 2
  /\ operand(duLast.user, 0) = operand(duLast.user, 1)
  /\ mUses[operand(duLast.user, 0)] # {}

RefreshingGetters ==
  {"getDomTree", "getPDomTree", "getLoopInfo", "getIndVarInfo", "getDepInfo",
   "getCallGraph", "getSideEffectInfo"}

\* The per-function getters.
FunctionGetters ==
  {"getDomTree", "getPDomTree", "getLoopInfo", "getIndVarInfo", "getDepInfo",
   "getParallelInfo"}

\* The analysis object the last getter call handed out, as it is now.
LastInfo ==
  CASE aimLast.op = "getDomTree"        -> mDomTree[aimLast.func]
    [] aimLast.op = "getPDomTree"       -> mPDomTree[aimLast.func]
    [] aimLast.op = "getLoopInfo"       -> mLoopInfo[aimLast.func]
    [] aimLast.op = "getIndVarInfo"     -> mIndVarInfo[aimLast.func]
    [] aimLast.op = "getDepInfo"        -> mDepInfo[aimLast.func]
    [] aimLast.op = "getParallelInfo"   -> mParallelInfo[aimLast.func]
    [] aimLast.op = "getCallGraph"      -> mCallGraph
    [] aimLast.op = "getSideEffectInfo" -> mSideEffectInfo

\* C6: a getter recomputes its analysis exactly when the validity flag is
\* off at the time of the call, hands out the cached result without
\* recomputing when the flag is on, and leaves the flag on.
C6_RecomputesExactlyWhenStale ==
  (aimLast.op \in RefreshingGetters /\ aimLast.handed = "obj") =>
    /\ aimLast.recomputed <=> ~aimLast.wasValid
    /\ LastInfo.isValid

\* C7: CFGChange(func) on a function with cached analyses turns off the
\* flags of its dominator tree, post-dominator tree, loop info,
\* induction-variable info and parallel info.
C7_CFGChangeTurnsOffFive ==
  (aimLast.op = "CFGChange" /\ aimLast.hadCache /\ ~crashed) =>
    /\ ~mDomTree[aimLast.func].isValid
    /\ ~mPDomTree[aimLast.func].isValid
    /\ ~mLoopInfo[aimLast.func].isValid
    /\ ~mIndVarInfo[aimLast.func].isValid
    /\ ~mParallelInfo[aimLast.func].isValid

\* C8: CallChange() turns off the flag of the call graph and the flag of
\* the side-effect summary.
C8_CallChangeTurnsOffBoth ==
  aimLast.op = "CallChange" =>
    (~mCallGraph.isValid /\ ~mSideEffectInfo.isValid)

\* C9: IndVarChange(func) turns off the induction-variable analysis of func
\* and changes no other analysis of func, no analysis of another function,
\* and neither the call graph nor the side-effect summary.
C9_IndVarChangeFrame ==
  [][\A func \in Funcs :
       (aimLast'.op = "IndVarChange" /\ aimLast'.func = func) =>
         /\ (mIndVarInfo[func].st = "obj" /\ ~isOnlyDeclare(func))
              => ~mIndVarInfo'[func].isValid
         /\ \A f \in Funcs \ {func} : mIndVarInfo'[f] = mIndVarInfo[f]
         /\ mIndVarInfo'[func].isValid => mIndVarInfo[func].isValid
         /\ UNCHANGED <<mDomTree, mPDomTree, mLoopInfo, mDepInfo, mParallelInfo,
                        mCallGraph, mSideEffectInfo>>]_vars

\* IndVarChange(main) turned a valid induction-variable analysis off while
\* every other analysis of main, the induction variables of g, the call
\* graph and the side-effect summary are valid
C9_Witness ==
  /\ aimLast.op = "IndVarChange"
  /\ aimLast.func = "main"
  /\ aimLast.wasValid
  /\ ~mIndVarInfo["main"].isValid
  /\ mDomTree["main"].isValid
  /\ mPDomTree["main"].isValid
  /\ mLoopInfo["main"].isValid
  /\ mDepInfo["main"].isValid
  /\ mParallelInfo["main"].isValid
  /\ mIndVarInfo["g"].isValid
  /\ mCallGraph.isValid
  /\ mSideEffectInfo.isValid

\* C10: when every CFG change is followed by CFGChange(func) before the next
\* getter call, what a per-function getter hands out was computed on the
\* function's current CFG.
C10_HandedOutIsCurrent ==
  (aimLast.op \in FunctionGetters /\ aimLast.handed = "obj" /\ ~broken) =>
    ~aimLast.handedStale

\* The same for the five getters that refresh() what they hand out.
RefreshedIsCurrent ==
  (aimLast.op \in FunctionGetters \ {"getParallelInfo"}
     /\ aimLast.handed = "obj" /\ ~broken)
    => ~aimLast.handedStale

\* C11: on a function with no blocks (a declaration) every per-function
\* getter returns null and creates no cache entry, and CFGChange and
\* IndVarChange change no validity flag and no cache entry.
C11_DeclarationIsNoOp ==
  [][\A func \in Funcs :
       (isOnlyDeclare(func) /\ aimLast'.func = func
          /\ aimLast'.op \in FunctionGetters \cup {"CFGChange", "IndVarChange"})
         => /\ aimLast'.op \in FunctionGetters => aimLast'.handed = "null"
            /\ ~crashed'
            /\ UNCHANGED <<mDomTree, mPDomTree, mLoopInfo, mIndVarInfo, mDepInfo,
                           mParallelInfo, mCallGraph, mSideEffectInfo>>]_vars

\* A getter returned null for the declaration while main's analyses are
\* cached and valid and the declaration has no cache entry.
C11_Witness ==
  /\ aimLast.op = "getLoopInfo"
  /\ aimLast.func = "decl"
  /\ aimLast.handed = "null"
  /\ mDomTree["decl"].st = "absent"
  /\ mLoopInfo["decl"].st = "absent"
  /\ mDomTree["main"].isValid
  /\ mLoopInfo["main"].isValid
  /\ mIndVarInfo["main"].isValid

\* The getters that hand out an analysis without refreshing it.
WithoutRefreshGetters ==
  {"getDomTreeWithoutRefresh", "getPDomTreeWithoutRefresh",
   "getLoopInfoWithoutRefresh", "getIndVarInfoWithoutRefresh",
   "getDepInfoWithoutRefresh"}

\* C27: on a function with a block and no cached analyses, a
\* getXWithoutRefresh getter creates the function's analysis objects and
\* returns an analysis object, dereferencing no null pointer.
C27_WithoutRefreshCreatesAndReturns ==
  (/\ aimLast.op \in WithoutRefreshGetters
   /\ ~isOnlyDeclare(aimLast.func)
   /\ ~aimLast.hadCache) =>
    /\ ~crashed
    /\ aimLast.handed = "obj"
    /\ \A k \in 1..Len(funcMaps) : funcMaps[k][aimLast.func].st = "obj"

\* C28: CFGChange(func) or IndVarChange(func) on a function with blocks and
\* no analysis created dereferences no null pointer, creates no cache entry
\* and changes no validity flag.
C28_HookWithoutAnalysisIsSafe ==
  [][\A func \in Funcs :
       (/\ aimLast'.op \in {"CFGChange", "IndVarChange"}
        /\ aimLast'.func = func
        /\ ~isOnlyDeclare(func)
        /\ \A k \in 1..Len(funcMaps) : funcMaps[k][func] = Absent) =>
         /\ ~crashed'
         /\ UNCHANGED <<funcMaps, mCallGraph, mSideEffectInfo>>]_vars

\* What holds of the two hooks: CFGChange(func) on such a function is safe.
CFGChangeWithoutAnalysisIsSafe ==
  [][\A func \in Funcs :
       (/\ aimLast'.op = "CFGChange"
        /\ aimLast'.func = func
        /\ ~isOnlyDeclare(func)
        /\ \A k \in 1..Len(funcMaps) : funcMaps[k][func] = Absent) =>
         /\ ~crashed'
         /\ UNCHANGED <<funcMaps, mCallGraph, mSideEffectInfo>>]_vars

(***************************************************************************)
(* Properties of the driver and of runPasses                               *)
(***************************************************************************)
\* a is an initial part of b.
IsPrefix(a, b) == Len(a) <= Len(b) /\ a = SubSeq(b, 1, Len(a))

\* The entries of events whose kind is in the set, in order.
EventsOf(kinds) == SelectSeq(events, LAMBDA e : e.ev \in kinds)

\* The positions in events of the entries of a kind.
PositionsOf(kind) == {k \in 1..Len(events) : events[k].ev = kind}

\* start and end of every occurrence in the list, in list order.
StartsAndEnds(passes) ==
  [k \in 1..(2 * Len(passes)) |->
     IF k % 2 = 1 THEN Ev("start", (k + 1) \div 2, passes[(k + 1) \div 2])
     ELSE Ev("end", k \div 2, passes[k \div 2])]

\* The functions the pass at position i has been run on, in order.
RunOn(i) ==
  LET runs == SelectSeq(events, LAMBDA e : e.ev = "run" /\ e.i = i)
  IN [k \in 1..Len(runs) |-> runs[k].name]

\* C12: runPasses runs the passes of the list in list order, one at a
\* time: each occurrence in the list starts once and ends once, a pass has
\* ended, after running on every function of the module, before the next
\* one starts, and when runPasses returns every occurrence has run.
C12_RunsListInOrder ==
  /\ IsPrefix(EventsOf({"start", "end"}), StartsAndEnds(config.passes))
  /\ \A k \in PositionsOf("end") : RunOn(events[k].i) = ModuleFuncs
  /\ PositionsOf("midendDone") # {}
       => EventsOf({"start", "end"}) = StartsAndEnds(config.passes)

\* runPasses returned after a list that names the same pass twice, and a
\* list that names a pass with a sub-pass.
C12_Witness ==
  /\ PositionsOf("midendDone") # {}
  /\ config.passes = <<"loopunroll", "loopunroll">>
  /\ Len(EventsOf({"sub"})) = 2

\* The stages of compilerPipeline, in its order.
Stages ==
  <<"frontend", "initialize", "midend", "midendDone", "dumpModule",
    "backend", "lower">>

\* The stages of a sequence of events.
StageNames(seq) == [k \in 1..Len(seq) |-> seq[k].ev]

C14_VerifyFailureAborts ==
  verified = "failed" =>
    /\ EventsOf({"midend", "start", "run", "backend", "lower"}) = <<>>
    /\ emitted = {}

\* C15: when lowering starts, the verifier has been invoked after the last
\* pass ended (and before lowering), and it succeeded.
C15_VerifiedBeforeLowering ==
  \A k \in PositionsOf("lower") :
    \E v \in PositionsOf("verify") :
      /\ v < k
      /\ \A e \in PositionsOf("end") : e < v
      /\ events[v].name = "ok"

\* C16: main returns EXIT_FAILURE exactly when there is no input file or
\* the generated IR failed verification, and without an input file the
\* pipeline is never invoked.
C16_ExitCodeTellsErrors ==
  pc = "done" =>
    /\ exitCode = "EXIT_FAILURE" <=> (config.infile = "" \/ verified = "failed")
    /\ exitCode = "EXIT_SUCCESS" <=> ~(config.infile = "" \/ verified = "failed")
    /\ config.infile = "" => events = <<>>

(***************************************************************************)
(* Properties of the builder                                               *)
(***************************************************************************)
\* C17: after any sequence of set_pos, setInsetPosEnd and makeInst calls no
\* block holds an instruction after a terminator.
C17_TerminatorIsLast ==
  \A b \in Blocks :
    \A k \in 1..(Len(insts[b]) - 1) : ~isTerminator(insts[b][k].kind)

\* The places of an instruction in a block's list.
placesOf(id, block) == {k \in 1..Len(insts[block]) : insts[block][k].id = id}

\* The list without its k-th element.
without(list, k) == SubSeq(list, 1, k - 1) \o SubSeq(list, k + 1, Len(list))

\* C26: with a current block B and insertion position p, makeInst makes an
\* instruction whose parent is B, that is in B exactly once, immediately
\* before p, and in no other block; B's other instructions and the
\* builder's position stay as they were; the instructions made by
\* consecutive makeInst calls are in B in the order made, directly before
\* p.  With no current block the instruction made has no parent and is in
\* no block.
C26_MakeInstInsertsBeforePosition ==
  bdLast.op = "makeInst" =>
    LET id == bdLast.inst.id
        B == bdLast.block
    IN IF B = "nullptr"
         THEN /\ parent[id] = "nullptr"
              /\ \A b \in Blocks : placesOf(id, b) = {}
       ELSE LET list == insts[B]
                p == Len(list) - mInsertPos
            IN /\ parent[id] = B
               /\ mBlock = B
               /\ mInsertPos = bdLast.pos
               /\ placesOf(id, B) = {p}
               /\ \A b \in Blocks \ {B} : placesOf(id, b) = {}
               /\ without(list, p) = bdLast.before
               /\ Len(made) <= p
               /\ \A n \in 1..Len(made) :
                    list[p - Len(made) + n].id = made[n]

\* Two consecutive makeInst calls with the position on an instruction of
\* the current block.
C26_Witness ==
  /\ bdLast.op = "makeInst"
  /\ mBlock = "body"
  /\ mInsertPos = 1
  /\ Len(made) = 2

(***************************************************************************)
(* Properties of Function                                                  *)
(***************************************************************************)
\* The last call was one of the three on arguments and type, and ran.
ArgumentCallRan ==
  /\ fnLast.op \in {"new_arg", "delArgumant", "updateTypeFromArgs"}
  /\ ~fnStopped

\* C18: after any sequence of new_arg, delArgumant and updateTypeFromArgs
\* calls the argument types of the function's type are, in order, the types
\* of its arguments, and the return type is the one it was created with.
C18_TypeMatchesArguments ==
  ArgumentCallRan =>
    /\ mType.args = typesOf(mArguments)
    /\ retType = created.ret

\* C18 as the code has it: right after updateTypeFromArgs the argument
\* types of the function's type are, in order, the types of its arguments;
\* after every call the return type is the one it was created with.
C18_TypeMatchesAfterUpdate ==
  /\ (fnLast.op = "updateTypeFromArgs" /\ ~fnStopped)
       => mType.args = typesOf(mArguments)
  /\ ArgumentCallRan => retType = created.ret

\* updateTypeFromArgs ran on a function created as i32(i32) that now has
\* the two arguments float and i32, the first of three having been deleted.
C18_Witness ==
  /\ fnLast.op = "updateTypeFromArgs"
  /\ created = FunctionType("i32", <<"i32">>)
  /\ argCnt = 3
  /\ typesOf(mArguments) = <<"float", "i32">>
  /\ mType = FunctionType("i32", <<"float", "i32">>)

\* C25: varInc() adds one to the variable counter and returns the value the
\* counter holds after the call.
C25_VarIncReturnsNewCounter ==
  (fnLast.op = "varInc" /\ ~fnStopped) =>
    /\ mVarCnt = fnLast.idx + 1
    /\ returned = mVarCnt

\* What varInc() does return: the value the counter held before the call.
VarIncReturnsOldCounter ==
  (fnLast.op = "varInc" /\ ~fnStopped) =>
    /\ mVarCnt = fnLast.idx + 1
    /\ returned = fnLast.idx

\* C29: after any sequence of new_arg and delArgumant calls the argument
\* counter is the number of arguments the function holds, and arg_i(i)
\* returns an argument for every i below the counter.
C29_CounterIsArgumentCount ==
  (mType # NoType /\ ~fnStopped) =>
    /\ argCnt = Len(mArguments)
    /\ \A i \in 0..(argCnt - 1) : arg_i(i) # NoArgument

(***************************************************************************)
(* Properties of Loop                                                      *)
(***************************************************************************)
\* (i) the header has exactly one predecessor outside the loop, and that
\* predecessor has exactly one successor.
UniquePreheader ==
  \E p \in LoopNodes \ loop.mBlocks :
    /\ <<p, loop.mHeader>> \in cfgEdges
    /\ \A q \in LoopNodes \ loop.mBlocks :
         <<q, loop.mHeader>> \in cfgEdges => q = p
    /\ \E s \in LoopNodes :
         \A t \in LoopNodes : <<p, t>> \in cfgEdges <=> t = s

\* (ii) the loop has exactly one latch.
UniqueLatch == \E l \in loop.mLatchs : loop.mLatchs = {l}

\* (iii) every predecessor of every exit block is inside the loop.
DedicatedExits ==
  \A e \in loop.mExits : \A p \in LoopNodes :
    <<p, e>> \in cfgEdges => p \in loop.mBlocks

\* C19: isLoopSimplifyForm() is true exactly when the loop has a unique
\* preheader, a unique latch and dedicated exits.
C19_SimplifyFormIffThree ==
  lpLast.op = "isLoopSimplifyForm" =>
    (lpLast.result <=> (UniquePreheader /\ UniqueLatch /\ DedicatedExits))

\* isLoopSimplifyForm() was true on a loop of two blocks with an exit.
C19_Witness ==
  /\ lpLast.op = "isLoopSimplifyForm"
  /\ lpLast.result
  /\ loop.mBlocks = {"header", "body"}
  /\ loop.mExits # {}

\* isLoopSimplifyForm() was false on a loop whose only flaw is that its
\* one outside predecessor has a second successor.
C19_WitnessNoPreheader ==
  /\ lpLast.op = "isLoopSimplifyForm"
  /\ ~lpLast.result
  /\ getloopPredecessor # "nullptr"
  /\ UniqueLatch
  /\ DedicatedExits

(***************************************************************************)
(* Properties of types                                                     *)
(***************************************************************************)
\* C20: size() of every pointer type is 8 whatever it points to, and
\* size() of i32 and of f32 is 4.
C20_PointerAndScalarSizes ==
  /\ ty.mBtype = "POINTER" => size(ty) = 8
  /\ ty.mBtype \in {"INT32", "FLOAT"} => size(ty) = 4
  /\ size(TypeInt32) = 4
  /\ size(TypeFloat32) = 4

\* A pointer type was made whose pointee, an array, has another size.
C20_Witness ==
  /\ tyLast = "TypePointer"
  /\ ty.mBtype = "POINTER"
  /\ ty.mBaseType.mBtype = "ARRAY"
  /\ size(ty.mBaseType) = 16

\* C21: size() of every array type is the size of its element type times
\* the product of its dimensions, also when the array type is made without
\* a capacity argument.
C21_ArraySizeIsElementTimesDims ==
  ty.mBtype = "ARRAY" => size(ty) = size(ty.mBaseType) * product(ty.mDims)

(***************************************************************************)
(* Properties of runs that differ in hash iteration order                  *)
(***************************************************************************)
\* C22: two runs on the same input that differ only in the iteration order
\* of the hash containers keyed on object identity get the same answers,
\* in the same order, from getUniqueLatch, getFirstBodyBlock and every
\* traversal of the loop's blocks, exits and sub-loops.
C22_SameAnswersInBothRuns ==
  detLast \notin {"none", "start"} => answer[1] = answer[2]

\* The part that holds: getUniqueLatch and getFirstBodyBlock return the
\* same block in both runs.
LookupsAreDeterministic ==
  detLast \in {"getUniqueLatch", "getFirstBodyBlock"} => answer[1] = answer[2]

(***************************************************************************)
(* Properties of conditional constant propagation                          *)
(***************************************************************************)
\* C23: during the pass the lattice value of every SSA value only moves
\* upward, and the pass stops: the worklist becomes empty.
C23_SccpTerminates ==
  /\ [][phase = "run" =>
          \A v \in SsaValues : rank(lat'[v]) >= rank(lat[v])]_vars
  /\ <>(phase = "done" /\ worklist = {})

\* The pass stopped on a function with a phi that reads itself, after the
\* phi went from undef over a constant to overdefined.
C23_Witness ==
  /\ phase = "done"
  /\ defOf["a"].op = "const1"
  /\ defOf["b"] = [op |-> "const0", x |-> "a", y |-> "a"]
  /\ defOf["c"] = [op |-> "phi", x |-> "b", y |-> "a"]
  /\ lat["c"] = "over"
  /\ executable

(***************************************************************************)
(* Properties of the builder's counters and stacks                         *)
(***************************************************************************)
\* C24: after reset(), whatever came before, the builder is as IRBuilder()
\* makes it: the counters are zero, there is no current block, header()
\* and exit() are null, and the four stacks are empty.
C24_ResetIsFresh ==
  bcLast = "reset" =>
    /\ counters = ZeroCounters
    /\ mBlock = "nullptr"
    /\ header = "nullptr"
    /\ exit = "nullptr"
    /\ _headers = <<>>
    /\ _exits = <<>>
    /\ _true_targets = <<>>
    /\ _false_targets = <<>>

\* What reset() does reset: the counters and the current block.
ResetClearsCountersAndBlock ==
  bcLast = "reset" => (counters = ZeroCounters /\ mBlock = "nullptr")

\* C30: after push_loop and pop_loop calls in which pops never outnumber
\* pushes, the header stack and the exit stack have the same depth, and
\* header() and exit() are the header and exit of the innermost push_loop
\* not yet popped, or both null when there is none.
C30_LoopStacksMatch ==
  (paired /\ ~bcStopped) =>
    /\ Len(_headers) = Len(_exits)
    /\ Len(_headers) = Len(open)
    /\ IF open = <<>> THEN header = "nullptr" /\ exit = "nullptr"
       ELSE header = top(open)[1] /\ exit = top(open)[2]

\* After two push_loop calls and one pop_loop, header() and exit() are
\* those of the first push_loop.
C30_Witness ==
  /\ paired
  /\ bcLast = "pop_loop"
  /\ open = <<<<"body", "entry">>>>
  /\ header = "body"
  /\ exit = "entry"

====
